---- MODULE Spec2Model ----
(***************************************************************************)
(* Weekday-master baseline engine of market_app (app/advanced).            *)
(*                                                                         *)
(* Numbers.  A float of the program is a fixed-point integer counting      *)
(* units of 1e-6, the precision every numeric column is persisted with     *)
(* (f"{x:.6f}").  Observation values are prices on that grid.  The one     *)
(* quantity that leaves the grid in memory is a quotient (avg = s / n,     *)
(* new_avg = (avg*cnt + tot) / new_cnt): it is kept as a fraction          *)
(* <<num, den>> and rounded when it is formatted for the file.             *)
(*                                                                         *)
(* Time.  A time bucket "HH:MM" is the minute of the day 60*HH + MM (the   *)
(* zero-padded text sorts as the number does).  A calendar date is a day   *)
(* number counted from Monday 2025-08-18.  now(UTC) is a logical clock     *)
(* that ticks once per invocation.                                         *)
(***************************************************************************)
EXTENDS Integers, Sequences, FiniteSets, Bags, TLC

VARIABLES
    adv,          \* weekday master files of adv_io:  key -> [exists, rows]
    advLedger,    \* their ".ledger" siblings: key -> sequence of date lines
    bulk,         \* WEEKDAY_*_MASTER.csv files of weekday_master_bulk
    bulkLedger,   \* their ".ledger" siblings
    now,          \* logical clock
    quota,        \* invocations left: [stream, eod]
    last,         \* the last invocation: its arguments and its outcome
    merged,       \* history: key -> bucket -> bag of the values merged
    advRuns,      \* history: key -> date -> ledger-gated runs that merged it
    bulkRuns,     \* history: key -> date -> ledger-gated runs that merged it
    wcall,        \* the master-file write in progress: [kind, atomic, lines, old]
    wpc,          \* where the writer is
    wattempt,     \* the rename attempt (the loop variable of range(5))
    wdelays,      \* the sleeps made between rename attempts, in 0.1 s
    wpos,         \* lines of the open file written so far
    wleft,        \* writes the caller has still to make
    target,       \* the master file on disk: [exists, lines]
    tmp,          \* the temporary file beside it: [exists, lines]
    obs,          \* what the concurrent reader read last, and when
    pbase,        \* Pair Deriver: the base totals (exp, off, tb) -> total
    pout,         \* Pair Deriver: the derived totals
    ppc,          \* Pair Deriver: "input" before the call, "done" after it
    sdate,        \* Streaming Updater: the target date of the session
    ssrc,         \* the split csv totals of that date: (exp, off, tb) -> total
    smaster,      \* the weekday masters it feeds: (exp, off, weekday) -> file
    sledger,      \* their ".ledger" siblings
    squota,       \* invocations left: [tick, eod, day]
    slast,        \* the last invocation on these masters and the merges it made
    streamN,      \* history: (file, bucket) -> merges made by streaming passes
    opc,          \* Session Orchestrator: the state main() is in
    otrace,       \* history: the states it has entered, in order
    oclock,       \* wall clock in half seconds: OpenAt..CloseAt is the window
    ocfg,         \* SessionConfig: [preflight, metrics, eod]
    helper,       \* sys_metrics_proc: "unstarted", "none", "running", "dead", "stopped"
    orun,         \* [summaries, eod, rc, beats, intr, ended] of the run
    hprocs,       \* history: helper processes [started, alive] by this run
    rpc,          \* Minute Scheduler: where run_minutely is
    rboundary,    \* its local boundary, a minute number
    rbounds,      \* history: the boundaries it has obtained
    rstat,        \* history: boundary -> [evals, ticks, pred, outcome]
    dadv,         \* the weekday masters of adv_aggregator over several days
    dadvLedger,   \* their ledgers
    dbulk,        \* the masters of weekday_master_bulk over several days
    dbulkLedger,  \* their ledgers
    ddates,       \* history: adv master -> the dates whose observations it merged
    dbulkDates,   \* history: bulk master -> the dates whose observations it merged
    dlast,        \* the last entry point run: [op, date, expiries, status, mutated,
                  \* good, merged]: its well-formed source rows and its merges
    dclock,       \* invocations so far, the now(UTC) of the next one
    cfile,        \* two writers: the master file they share, [exists, lines]
    ctmp,         \* two writers: temporary file name -> [exists, lines]
    cw,           \* two writers: writer -> [pc, tb, rows, pos, attempt]
    crace         \* two writers: [left, done, renames, fallbacks], a history

storeVars == <<adv, advLedger, bulk, bulkLedger, now, quota, last, merged, advRuns, bulkRuns>>

writerVars == <<wcall, wpc, wattempt, wdelays, wpos, wleft, target, tmp, obs>>

pairVars == <<pbase, pout, ppc>>

streamVars == <<sdate, ssrc, smaster, sledger, squota, slast, streamN>>

sessionVars == <<opc, otrace, oclock, ocfg, helper, orun, hprocs>>

schedVars == <<rpc, rboundary, rbounds, rstat>>

dayVars == <<dadv, dadvLedger, dbulk, dbulkLedger, ddates, dbulkDates, dlast, dclock>>

raceVars == <<cfile, ctmp, cw, crace>>

vars == <<storeVars, writerVars, pairVars, streamVars, sessionVars, schedVars, dayVars,
         raceVars>>

nonStoreVars == <<writerVars, pairVars, streamVars, sessionVars, schedVars, dayVars, raceVars>>

nonWriterVars == <<storeVars, pairVars, streamVars, sessionVars, schedVars, dayVars, raceVars>>

nonPairVars == <<storeVars, writerVars, streamVars, sessionVars, schedVars, dayVars, raceVars>>

nonStreamVars == <<storeVars, writerVars, pairVars, sessionVars, schedVars, dayVars, raceVars>>

nonSessionVars == <<storeVars, writerVars, pairVars, streamVars, schedVars, dayVars, raceVars>>

nonSchedVars == <<storeVars, writerVars, pairVars, streamVars, sessionVars, dayVars, raceVars>>

nonDayVars == <<storeVars, writerVars, pairVars, streamVars, sessionVars, schedVars, raceVars>>

nonRaceVars == <<storeVars, writerVars, pairVars, streamVars, sessionVars, schedVars, dayVars>>

-----------------------------------------------------------------------------
(* Bounds and input sets *)

MaxMerges == 3

MaxStoreEod == 1

MaxEodRuns == 2

Unit == 1000000

NaV == -1

Values == {80 * Unit, 100 * Unit, 120 * Unit}

Buckets == {555, 556}

Dates == {0, 7}

-----------------------------------------------------------------------------
(* adv_config.py *)

BASE_OFFSETS == {"atm_m2", "atm_m1", "atm", "atm_p1", "atm_p2"}

PAIR_OFFSETS == {"atm_p1m1", "atm_p2m2"}

WEEKDAY_CODE == <<"mon", "tue", "wed", "thu", "fri", "sat", "sun">>

SESSION_START_HHMM == 555

SESSION_END_HHMM == 930

weekday_code_from_date(d) == WEEKDAY_CODE[(d % 7) + 1]

in_session_ist(t, start_hhmm, end_hhmm) == t >= start_hhmm /\ t <= end_hhmm

normalize_offset_name(off) ==
    IF off \in {"atm_m2", "atm_m1", "atm", "atm_p1", "atm_p2", "atm_p1m1", "atm_p2m2"}
    THEN off
    ELSE IF off = "m2" THEN "atm_m2"
    ELSE IF off = "m1" THEN "atm_m1"
    ELSE IF off = "p1" THEN "atm_p1"
    ELSE IF off = "p2" THEN "atm_p2"
    ELSE off

-----------------------------------------------------------------------------
(* Arithmetic helpers *)

Min2(a, b) == IF a <= b THEN a ELSE b

Max2(a, b) == IF a >= b THEN a ELSE b

Abs(a) == IF a < 0 THEN -a ELSE a

\* f"{num/den:.6f}": the quotient rounded to the nearest unit, ties to even.
Fmt6(num, den) ==
    LET q == num \div den
        r == num % den
    IN  IF 2 * r > den \/ (2 * r = den /\ q % 2 = 1) THEN q + 1 ELSE q

NoRows == [b \in {} |-> 0]

PutAlone(d, k, v) == [x \in {k} |-> v]

Put(d, k, v) == [x \in (DOMAIN d) \cup {k} |-> IF x = k THEN v ELSE d[x]]

-----------------------------------------------------------------------------
(* adv_io.py: the weekday master file *)

AbsentFile == [exists |-> FALSE, rows |-> NoRows]

\* One csv row parsed into a WeekdayRow.
ParseRow(tb, r) ==
    [time_bucket |-> tb, n_tot |-> r.n_tot, sum_tot |-> r.sum_tot,
     avg_tot |-> <<r.avg_tot, 1>>, min_tot |-> r.min_tot, max_tot |-> r.max_tot,
     last_updated |-> r.last_updated]

read_weekday_master(f) ==
    IF ~f.exists THEN NoRows
    ELSE [tb \in DOMAIN f.rows |-> ParseRow(tb, f.rows[tb])]

\* One WeekdayRow formatted as a csv row.
FormatRow(r) ==
    [n_tot |-> r.n_tot, sum_tot |-> r.sum_tot,
     avg_tot |-> Fmt6(r.avg_tot[1], r.avg_tot[2]),
     min_tot |-> r.min_tot, max_tot |-> r.max_tot,
     last_updated |-> r.last_updated]

write_to_file(rows) ==
    [exists |-> TRUE, rows |-> [tb \in DOMAIN rows |-> FormatRow(rows[tb])]]

-----------------------------------------------------------------------------
(* adv_aggregator.py: the merge arithmetic *)

MergeRowWrongMax(existing, tb, tot, ts) ==
    LET has == tb \in DOMAIN existing
        n   == IF has THEN existing[tb].n_tot + 1 ELSE 1
        s   == IF has THEN existing[tb].sum_tot + tot ELSE tot
    IN  [time_bucket |-> tb, n_tot |-> n, sum_tot |-> s, avg_tot |-> <<s, n>>,
         min_tot |-> IF has THEN Min2(existing[tb].min_tot, tot) ELSE tot,
         max_tot |-> tot, last_updated |-> ts]

MergeRowNoCount(existing, tb, tot, ts) ==
    LET has == tb \in DOMAIN existing
        n   == IF has THEN existing[tb].n_tot ELSE 1
        s   == IF has THEN existing[tb].sum_tot + tot ELSE tot
    IN  [time_bucket |-> tb, n_tot |-> n, sum_tot |-> s, avg_tot |-> <<s, n>>,
         min_tot |-> IF has THEN Min2(existing[tb].min_tot, tot) ELSE tot,
         max_tot |-> IF has THEN Max2(existing[tb].max_tot, tot) ELSE tot,
         last_updated |-> ts]

\* The row computed for bucket tb from the rows read and the value tot.
MergeRow(existing, tb, tot, ts) ==
    LET has == tb \in DOMAIN existing
        n   == IF has THEN existing[tb].n_tot + 1 ELSE 1
        s   == IF has THEN existing[tb].sum_tot + tot ELSE tot
        mn  == IF has THEN Min2(existing[tb].min_tot, tot) ELSE tot
        mx  == IF has THEN Max2(existing[tb].max_tot, tot) ELSE tot
    IN  [time_bucket |-> tb, n_tot |-> n, sum_tot |-> s,
         avg_tot |-> IF n > 0 THEN <<s, n>> ELSE <<0, 1>>,
         min_tot |-> mn, max_tot |-> mx, last_updated |-> ts]

\* write_weekday_master as its caller sees it: the file holds the full map
\* when it returns, whichever path the writer took.
write_weekday_master(rows) == write_to_file(rows)

_apply_weekday_update(f, tb, tot, ts) ==
    LET existing == read_weekday_master(f)
        updated  == MergeRow(existing, tb, tot, ts)
    IN  [file |-> write_weekday_master(Put(existing, tb, updated)),
         n |-> updated.n_tot, updated |-> updated]

\* Raw per-leg rows of one day, as adv_weekday_eod hands them over.
RawRow(off, ce, pe, ts) ==
    [index |-> "SENSEX", expiry_code |-> "this_week", strike_offset |-> off,
     ce_ltp |-> ce, pe_ltp |-> pe, ts |-> ts]

RowAccepted(row, agg_key) ==
    /\ row.index = agg_key.index
    /\ row.expiry_code = agg_key.expiry_code
    /\ normalize_offset_name(row.strike_offset) = agg_key.strike_offset
    /\ row.ce_ltp # NaV /\ row.pe_ltp # NaV
    /\ row.ts # NaV
    /\ in_session_ist(row.ts, SESSION_START_HHMM, SESSION_END_HHMM)

\* The loop over rows_iter: the map after the loop and the merges it made.
RECURSIVE AggLoop(_, _, _, _, _)
AggLoop(existing_all, hits, rows, agg_key, ts) ==
    IF rows = <<>> THEN [all |-> existing_all, hits |-> hits]
    ELSE LET row == Head(rows) IN
         IF ~RowAccepted(row, agg_key)
         THEN AggLoop(existing_all, hits, Tail(rows), agg_key, ts)
         ELSE LET tot     == row.ce_ltp + row.pe_ltp
                  updated == MergeRow(existing_all, row.ts, tot, ts)
              IN  AggLoop(Put(existing_all, row.ts, updated),
                          Append(hits, <<row.ts, tot>>), Tail(rows), agg_key, ts)

InLedgerNever(ledger, date_str) == FALSE

\* date_str in load_ledger(path)
InLedger(ledger, date_str) == \E i \in 1..Len(ledger) : ledger[i] = date_str

LedgerRewritten(ledger, date_str) == <<date_str>>

append_ledger(ledger, date_str) == Append(ledger, date_str)

aggregate_day_for_key(f, ledger, agg_key, rows, dry_run, has_date, date_str, ts) ==
    IF has_date /\ InLedger(ledger, date_str)
    THEN [file |-> f, ledger |-> ledger, hits |-> <<>>, wrote |-> FALSE,
          skipped |-> TRUE, log |-> {"SKIP"}]
    ELSE LET loop == AggLoop(read_weekday_master(f), <<>>, rows, agg_key, ts) IN
         [file    |-> IF dry_run THEN f ELSE write_weekday_master(loop.all),
          ledger  |-> IF ~dry_run /\ has_date
                      THEN append_ledger(ledger, date_str) ELSE ledger,
          hits    |-> IF dry_run THEN <<>> ELSE loop.hits,
          wrote   |-> ~dry_run,
          skipped |-> FALSE,
          log     |-> {}]

\* aggregate_day_for_key past the ledger test, not dry, when
\* write_weekday_master (line 457) raises, as an OSError while the temporary
\* file is written does: append_ledger (line 459) is not reached and the
\* master path was not touched.
aggregate_day_for_key_raising(f, ledger, agg_key, rows, has_date, date_str, ts) ==
    LET loop == AggLoop(read_weekday_master(f), <<>>, rows, agg_key, ts) IN
    [file |-> f, ledger |-> ledger, hits |-> <<>>, tried |-> loop.hits,
     wrote |-> FALSE, skipped |-> FALSE, log |-> {}]

-----------------------------------------------------------------------------
(* weekday_master_bulk.py *)

DailyRow(tot, ts) == [total_premium |-> tot, ts_ist |-> ts]

\* load_master: one csv row as the tuple (avg, cnt, lu).
load_master(f) ==
    IF ~f.exists THEN NoRows
    ELSE [hhmm \in DOMAIN f.rows |->
            [avg |-> <<f.rows[hhmm].avg, 1>>, cnt |-> f.rows[hhmm].cnt,
             lu |-> f.rows[hhmm].lu]]

\* The file write_master_atomic renames onto the master path.
master_csv(rows) ==
    [exists |-> TRUE,
     rows   |-> [hhmm \in DOMAIN rows |->
                   [avg |-> Fmt6(rows[hhmm].avg[1], rows[hhmm].avg[2]),
                    cnt |-> rows[hhmm].cnt, lu |-> rows[hhmm].lu]]]

\* A ts_ist that is no timestamp, such as "garbage": hhmm_from_ts_ist finds
\* no "T" to split at and dateutil's isoparse then raises ValueError.
Garbage == NaV - 1

DailyAccepted(row, session_start, session_end) ==
    /\ row.total_premium # NaV
    /\ row.ts_ist # NaV
    /\ in_session_ist(row.ts_ist, session_start, session_end)

\* The loop over the daily csv: the map after the loop and the merges made.
RECURSIVE DailyLoop(_, _, _, _)
DailyLoop(rows, hits, daily, day_str) ==
    IF daily = <<>> THEN [rows |-> rows, hits |-> hits, raised |-> FALSE]
    ELSE LET row == Head(daily) IN
         IF row.total_premium # NaV /\ row.ts_ist = Garbage
         THEN [rows |-> rows, hits |-> hits, raised |-> TRUE]
         ELSE IF ~DailyAccepted(row, SESSION_START_HHMM, SESSION_END_HHMM)
         THEN DailyLoop(rows, hits, Tail(daily), day_str)
         ELSE LET hhmm == row.ts_ist
                  tot  == row.total_premium
                  new  == IF hhmm \in DOMAIN rows
                          THEN LET prev == rows[hhmm]
                                   new_cnt == prev.cnt + 1
                               IN  [avg |-> <<prev.avg[1] * prev.cnt + tot * prev.avg[2],
                                              prev.avg[2] * new_cnt>>,
                                    cnt |-> new_cnt, lu |-> day_str]
                          ELSE [avg |-> <<tot, 1>>, cnt |-> 1, lu |-> day_str]
              IN  DailyLoop(Put(rows, hhmm, new), Append(hits, <<hhmm, tot>>),
                            Tail(daily), day_str)

UpdateMasterLedgerFirst(f, ledger, daily, day_str, use_ledger, replace_fails) ==
    IF use_ledger /\ InLedger(ledger, day_str)
    THEN [file |-> f, ledger |-> ledger, hits |-> <<>>, wrote |-> FALSE,
          skipped |-> TRUE, raised |-> FALSE, log |-> {}]
    ELSE LET loop    == DailyLoop(load_master(f), <<>>, daily, day_str)
             updated == loop.hits # <<>>
             led     == IF updated /\ use_ledger
                        THEN append_ledger(ledger, day_str) ELSE ledger
         IN  IF loop.raised
             THEN [file |-> f, ledger |-> ledger, hits |-> <<>>, wrote |-> FALSE,
                   skipped |-> FALSE, raised |-> TRUE, log |-> {}]
             ELSE IF updated /\ replace_fails
             THEN [file |-> f, ledger |-> led, hits |-> <<>>, wrote |-> FALSE,
                   skipped |-> FALSE, raised |-> TRUE, log |-> {}]
             ELSE [file    |-> IF updated THEN master_csv(loop.rows) ELSE f,
                   ledger  |-> led,
                   hits    |-> loop.hits,
                   wrote   |-> updated,
                   skipped |-> FALSE, raised |-> FALSE, log |-> {}]

\* replace_fails: os.replace in write_master_atomic raises PermissionError.
\* An exception of the loop over the daily csv leaves before any write.
update_master_from_daily(f, ledger, daily, day_str, use_ledger, replace_fails) ==
    IF use_ledger /\ InLedger(ledger, day_str)
    THEN [file |-> f, ledger |-> ledger, hits |-> <<>>, wrote |-> FALSE,
          skipped |-> TRUE, raised |-> FALSE, log |-> {}]
    ELSE LET loop    == DailyLoop(load_master(f), <<>>, daily, day_str)
             updated == loop.hits # <<>>
         IN  IF loop.raised \/ (updated /\ replace_fails)
             THEN [file |-> f, ledger |-> ledger, hits |-> <<>>, wrote |-> FALSE,
                   skipped |-> FALSE, raised |-> TRUE, log |-> {}]
             ELSE [file    |-> IF updated THEN master_csv(loop.rows) ELSE f,
                   ledger  |-> IF updated /\ use_ledger
                               THEN append_ledger(ledger, day_str) ELSE ledger,
                   hits    |-> loop.hits,
                   wrote   |-> updated,
                   skipped |-> FALSE, raised |-> FALSE, log |-> {}]

\* run_bulk_eod's loop over the daily csvs found for the date; failing is the
\* set of masters whose os.replace raises.  An exception ends the loop.
RECURSIVE BulkLoop(_, _, _, _, _)
BulkLoop(st, found, day_str, use_ledger, failing) ==
    IF found = <<>> \/ st.raised THEN st
    ELSE LET it == Head(found)
             k  == it.key
             r  == update_master_from_daily(st.bulk[k], st.ledger[k], it.daily,
                                            day_str, use_ledger, k \in failing)
         IN  BulkLoop(
               [bulk    |-> [st.bulk EXCEPT ![k] = r.file],
                ledger  |-> [st.ledger EXCEPT ![k] = r.ledger],
                updated_paths |-> IF r.raised THEN st.updated_paths
                                  ELSE Append(st.updated_paths, k),
                skipped |-> st.skipped \cup (IF r.skipped THEN {k} ELSE {}),
                hit     |-> st.hit \cup (IF r.hits # <<>> THEN {k} ELSE {}),
                wrote   |-> st.wrote \cup (IF r.wrote THEN {k} ELSE {}),
                raised  |-> r.raised,
                log     |-> st.log \cup r.log],
               Tail(found), day_str, use_ledger, failing)

run_bulk_eod(files, ledgers, found, day_str, use_ledger, failing) ==
    BulkLoop([bulk |-> files, ledger |-> ledgers, updated_paths |-> <<>>,
              skipped |-> {}, hit |-> {}, wrote |-> {}, raised |-> FALSE,
              log |-> {}],
             found, day_str, use_ledger, failing)

-----------------------------------------------------------------------------
(* The files and the inputs of the model *)

AdvKeys ==
    {[index |-> "SENSEX", expiry_code |-> "this_week", strike_offset |-> "atm",
      weekday |-> "mon"]}

BulkKeys == {[index |-> "SENSEX", expiry |-> "this_week", strike |-> "atm"]}

RawInputs ==
    { <<RawRow("atm", 60 * Unit, 40 * Unit, 555)>>,
      <<RawRow("atm", 60 * Unit, 40 * Unit, 555), RawRow("atm", 70 * Unit, 50 * Unit, 555)>>,
      <<RawRow("atm", 60 * Unit, NaV, 555), RawRow("atm_p1", 9 * Unit, 9 * Unit, 555),
        RawRow("atm", 50 * Unit, 30 * Unit, 556)>>,
      <<RawRow("atm", 60 * Unit, 40 * Unit, 554), RawRow("atm", 60 * Unit, 40 * Unit, NaV),
        RawRow("atm", 60 * Unit, 40 * Unit, 931)>> }

DailyInputs ==
    { <<DailyRow(10 * Unit, 555)>>,
      <<DailyRow(10 * Unit, 555), DailyRow(11 * Unit, 555)>>,
      <<DailyRow(NaV, 555), DailyRow(10 * Unit, NaV), DailyRow(8 * Unit, 556)>>,
      <<DailyRow(10 * Unit, 554), DailyRow(10 * Unit, 931)>> }

FoundInputs ==
    {<<>>} \cup {<<[key |-> k, daily |-> d]>> : k \in BulkKeys, d \in DailyInputs}

ZeroRow ==
    [time_bucket |-> 0, n_tot |-> 0, sum_tot |-> 0, avg_tot |-> <<0, 1>>,
     min_tot |-> 0, max_tot |-> 0, last_updated |-> 0]

NoCall ==
    [op |-> "none", date |-> 0, gated |-> FALSE, dry |-> FALSE, src |-> <<>>,
     had |-> {}, skipped |-> {}, hit |-> {}, wrote |-> {}, log |-> {},
     status |-> "ok", paths |-> <<>>,
     key |-> CHOOSE k \in AdvKeys : TRUE, tb |-> 0, tot |-> 0, updated |-> ZeroRow]

\* The bag of merged values of each bucket after the merges hits.
RECURSIVE Record(_, _)
Record(m, hits) ==
    IF hits = <<>> THEN m
    ELSE Record([m EXCEPT ![Head(hits)[1]] = @ (+) SetToBag({Head(hits)[2]})],
                Tail(hits))

-----------------------------------------------------------------------------
(* Operations *)

StoreInit(nstream, neod) ==
    /\ adv = [k \in AdvKeys |-> AbsentFile]
    /\ advLedger = [k \in AdvKeys |-> <<>>]
    /\ bulk = [k \in BulkKeys |-> AbsentFile]
    /\ bulkLedger = [k \in BulkKeys |-> <<>>]
    /\ now = 0
    /\ quota = [stream |-> nstream, eod |-> neod]
    /\ last = NoCall
    /\ merged = [k \in AdvKeys |-> [b \in Buckets |-> EmptyBag]]
    /\ advRuns = [k \in AdvKeys |-> [d \in Dates |-> 0]]
    /\ bulkRuns = [k \in BulkKeys |-> [d \in Dates |-> 0]]

\* One merge of the Streaming Updater: _apply_weekday_update(path, tb, tot).
ApplyWeekdayUpdate(k, tb, tot) ==
    /\ quota.stream > 0
    /\ quota' = [quota EXCEPT !.stream = @ - 1]
    /\ now' = now + 1
    /\ LET r == _apply_weekday_update(adv[k], tb, tot, now') IN
       /\ adv' = [adv EXCEPT ![k] = r.file]
       /\ merged' = [merged EXCEPT ![k] = Record(@, <<<<tb, tot>>>>)]
       /\ last' = [NoCall EXCEPT !.op = "stream", !.key = k, !.tb = tb, !.tot = tot,
                                 !.hit = {k}, !.wrote = {k}, !.updated = r.updated]
    /\ UNCHANGED <<advLedger, bulk, bulkLedger, advRuns, bulkRuns, nonStoreVars>>

\* aggregate_day_for_key as adv_weekday_eod calls it (weekday taken from the
\* date), with and without a date_str.
AggregateDayForKey(k, date, has_date, dry_run, rows) ==
    /\ quota.eod > 0
    /\ k.weekday = weekday_code_from_date(date)
    /\ quota' = [quota EXCEPT !.eod = @ - 1]
    /\ now' = now + 1
    /\ LET r == aggregate_day_for_key(adv[k], advLedger[k], k, rows, dry_run,
                                      has_date, date, now') IN
       /\ adv' = [adv EXCEPT ![k] = r.file]
       /\ advLedger' = [advLedger EXCEPT ![k] = r.ledger]
       /\ merged' = [merged EXCEPT ![k] = Record(@, r.hits)]
       /\ advRuns' = IF has_date /\ r.hits # <<>>
                     THEN [advRuns EXCEPT ![k][date] = @ + 1] ELSE advRuns
       /\ last' = [NoCall EXCEPT !.op = "agg", !.key = k, !.date = date,
                     !.gated = has_date, !.dry = dry_run, !.src = rows,
                     !.had = IF InLedger(advLedger[k], date) THEN {k} ELSE {},
                     !.skipped = IF r.skipped THEN {k} ELSE {},
                     !.hit = IF r.hits # <<>> THEN {k} ELSE {},
                     !.wrote = IF r.wrote THEN {k} ELSE {},
                     !.log = r.log]
    /\ UNCHANGED <<bulk, bulkLedger, bulkRuns, nonStoreVars>>

\* run_bulk_eod(date_iso, use_ledger) over the daily csvs found for the date.
RunBulkEod(date, use_ledger, found, failing) ==
    /\ quota.eod > 0
    /\ quota' = [quota EXCEPT !.eod = @ - 1]
    /\ now' = now + 1
    /\ LET r == run_bulk_eod(bulk, bulkLedger, found, date, use_ledger, failing) IN
       /\ bulk' = r.bulk
       /\ bulkLedger' = r.ledger
       /\ bulkRuns' = [k \in BulkKeys |->
                         IF use_ledger /\ k \in r.hit /\ k \in r.wrote
                         THEN [bulkRuns[k] EXCEPT ![date] = @ + 1] ELSE bulkRuns[k]]
       /\ last' = [NoCall EXCEPT !.op = "bulk", !.date = date, !.gated = use_ledger,
                     !.src = found,
                     !.had = {k \in BulkKeys : InLedger(bulkLedger[k], date)
                                /\ \E i \in 1..Len(found) : found[i].key = k},
                     !.skipped = r.skipped, !.hit = r.hit \cap r.wrote,
                     !.wrote = r.wrote, !.log = r.log,
                     !.status = IF r.raised THEN "raised" ELSE "ok",
                     !.paths = r.updated_paths]
    /\ UNCHANGED <<adv, advLedger, merged, advRuns, nonStoreVars>>

Stream == \E k \in AdvKeys, tb \in Buckets, tot \in Values : ApplyWeekdayUpdate(k, tb, tot)

Aggregate ==
    \E k \in AdvKeys, date \in Dates, has_date \in BOOLEAN, dry_run \in BOOLEAN,
       rows \in RawInputs : AggregateDayForKey(k, date, has_date, dry_run, rows)

\* aggregate_day_for_key reaching a write_weekday_master that raises.
AggregateWriteFails ==
    \E k \in AdvKeys, date \in Dates, has_date \in BOOLEAN, rows \in RawInputs :
       /\ quota.eod > 0
       /\ k.weekday = weekday_code_from_date(date)
       /\ ~(has_date /\ InLedger(advLedger[k], date))
       /\ quota' = [quota EXCEPT !.eod = @ - 1]
       /\ now' = now + 1
       /\ LET r == aggregate_day_for_key_raising(adv[k], advLedger[k], k, rows,
                                                 has_date, date, now') IN
          /\ adv' = [adv EXCEPT ![k] = r.file]
          /\ advLedger' = [advLedger EXCEPT ![k] = r.ledger]
          /\ last' = [NoCall EXCEPT !.op = "agg", !.key = k, !.date = date,
                        !.gated = has_date, !.src = rows, !.status = "raised",
                        !.hit = IF r.tried # <<>> THEN {k} ELSE {}]
       /\ UNCHANGED <<merged, advRuns, bulk, bulkLedger, bulkRuns, nonStoreVars>>

Bulk ==
    \E date \in Dates, use_ledger \in BOOLEAN, found \in FoundInputs,
       failing \in SUBSET BulkKeys : RunBulkEod(date, use_ledger, found, failing)

\* A ledger-gated run_bulk_eod whose process stops (crash or interrupt) inside
\* update_master_from_daily, after write_master_atomic has returned and
\* before append_ledger is called.
BulkStopsBeforeLedger ==
    \E date \in Dates, k \in BulkKeys, daily \in DailyInputs :
       /\ quota.eod > 0
       /\ quota' = [quota EXCEPT !.eod = @ - 1]
       /\ now' = now + 1
       /\ LET r == update_master_from_daily(bulk[k], bulkLedger[k], daily, date,
                                            TRUE, FALSE) IN
          /\ r.wrote
          /\ bulk' = [bulk EXCEPT ![k] = r.file]
          /\ bulkRuns' = [bulkRuns EXCEPT ![k][date] = @ + 1]
          /\ last' = [NoCall EXCEPT !.op = "bulk", !.date = date, !.gated = TRUE,
                        !.src = <<[key |-> k, daily |-> daily]>>,
                        !.hit = {k}, !.wrote = {k}, !.status = "stopped"]
       /\ UNCHANGED <<bulkLedger, adv, advLedger, merged, advRuns, nonStoreVars>>

\* aggregate_day_for_key with a date_str whose process stops after
\* write_weekday_master has returned and before append_ledger is called.
AggregateStopsBeforeLedger ==
    \E k \in AdvKeys, date \in Dates, rows \in RawInputs :
       /\ quota.eod > 0
       /\ k.weekday = weekday_code_from_date(date)
       /\ quota' = [quota EXCEPT !.eod = @ - 1]
       /\ now' = now + 1
       /\ LET r == aggregate_day_for_key(adv[k], advLedger[k], k, rows, FALSE,
                                         TRUE, date, now') IN
          /\ r.wrote
          /\ adv' = [adv EXCEPT ![k] = r.file]
          /\ merged' = [merged EXCEPT ![k] = Record(@, r.hits)]
          /\ advRuns' = IF r.hits # <<>>
                        THEN [advRuns EXCEPT ![k][date] = @ + 1] ELSE advRuns
          /\ last' = [NoCall EXCEPT !.op = "agg", !.key = k, !.date = date,
                        !.gated = TRUE, !.src = rows,
                        !.hit = IF r.hits # <<>> THEN {k} ELSE {},
                        !.wrote = {k}, !.status = "stopped"]
       /\ UNCHANGED <<advLedger, bulk, bulkLedger, bulkRuns, nonStoreVars>>

-----------------------------------------------------------------------------
(* adv_aggregator._apply_pairs_from_base *)

MaxBaseEntries == 3

ExpiryCodes == {"this_week", "next_week"}

PairBuckets == {615, 616}

PairValues == {7500000, 12500000}

BaseKeys == ExpiryCodes \X BASE_OFFSETS \X PairBuckets

\* by_exp_tb[(exp, tb)]: the totals of the expiry and minute, by offset.
by_exp_tb(base, exp, tb) ==
    [off \in {k[2] : k \in {x \in DOMAIN base : x[1] = exp /\ x[3] = tb}} |->
        base[<<exp, off, tb>>]]

\* The loop over by_exp_tb.items(): pair p1m1 = <<plus, minus>> feeds
\* atm_p1m1 and pair p2m2 feeds atm_p2m2; (a + b) / 2.0 stays a fraction.
DerivePairs(base, p1m1, p2m2) ==
    LET groups == {<<k[1], k[3]>> : k \in DOMAIN base}
        Has(g, pair) == {pair[1], pair[2]} \subseteq DOMAIN by_exp_tb(base, g[1], g[2])
        Half(g, pair) == <<by_exp_tb(base, g[1], g[2])[pair[1]]
                             + by_exp_tb(base, g[1], g[2])[pair[2]], 2>>
        keys == {<<g[1], "atm_p1m1", g[2]>> : g \in {h \in groups : Has(h, p1m1)}}
                \cup {<<g[1], "atm_p2m2", g[2]>> : g \in {h \in groups : Has(h, p2m2)}}
    IN  [k \in keys |->
           IF k[2] = "atm_p1m1" THEN Half(<<k[1], k[3]>>, p1m1)
                                ELSE Half(<<k[1], k[3]>>, p2m2)]

PairsCrossed(base) ==
    DerivePairs(base, <<"atm_p1", "atm_m2">>, <<"atm_p2", "atm_m1">>)

_apply_pairs_from_base(base) ==
    DerivePairs(base, <<"atm_p1", "atm_m1">>, <<"atm_p2", "atm_m2">>)

PairsIdle ==
    /\ pbase = NoRows
    /\ pout = NoRows
    /\ ppc = "idle"

PairsInit ==
    /\ \E S \in SUBSET BaseKeys :
          /\ Cardinality(S) <= MaxBaseEntries
          /\ pbase \in [S -> PairValues]
    /\ pout = NoRows
    /\ ppc = "input"

ApplyPairsFromBase ==
    /\ ppc = "input"
    /\ pout' = _apply_pairs_from_base(pbase)
    /\ ppc' = "done"
    /\ UNCHANGED <<pbase, nonPairVars>>

-----------------------------------------------------------------------------
(* adv_aggregator.stream_update_for_latest_minute and aggregate_eod_paired *)

MaxTicks == 2

MaxPairedEod == 1

MaxDayEod == 1

\* Monday 2025-08-18 and Saturday 2025-08-23.
StreamDates == {0, 5}

StreamExpiries == {"this_week"}

StreamBuckets == {555, 556}

StreamFiles ==
    StreamExpiries \X (BASE_OFFSETS \cup PAIR_OFFSETS)
        \X {weekday_code_from_date(d) : d \in StreamDates}

\* What one minute adds to the split csv files of the date, by offset.
MinuteShapes ==
    { [off \in {"atm"} |-> 100 * Unit],
      [off \in {"atm_p1", "atm_m1"} |-> IF off = "atm_p1" THEN 12500000 ELSE 7500000],
      [off \in {"atm_p1", "atm_m1", "atm_p1m1"} |->
          IF off = "atm_p1" THEN 12500000
          ELSE IF off = "atm_m1" THEN 7500000 ELSE 11 * Unit],
      [off \in {"atm_p2", "atm_m2", "atm_p1m1"} |->
          IF off = "atm_p2" THEN 30 * Unit
          ELSE IF off = "atm_m2" THEN 10 * Unit ELSE 11 * Unit] }

\* result[(exp, off, tb)] = tot over the split files of the offsets asked for.
_build_totals_split_for_index_day(split, expiry_codes, offsets) ==
    [k \in {x \in DOMAIN split : x[1] \in expiry_codes /\ x[2] \in offsets} |-> split[k]]

\* pairs_from_files of both callers: the totals read from the pair files,
\* and the derived ones only if not one of those was read.
PairsBlended(split, expiry_codes) ==
    LET base    == _build_totals_split_for_index_day(split, expiry_codes, BASE_OFFSETS)
        direct  == _build_totals_split_for_index_day(split, expiry_codes, PAIR_OFFSETS)
        derived == _apply_pairs_from_base(base)
    IN  [k \in (DOMAIN direct) \cup (DOMAIN derived) |->
           IF k \in DOMAIN direct /\ k \in DOMAIN derived
           THEN <<2 * direct[k] + derived[k][1], 4>>
           ELSE IF k \in DOMAIN direct THEN <<direct[k], 1>> ELSE derived[k]]

pairs_from_files(split, expiry_codes) ==
    LET base   == _build_totals_split_for_index_day(split, expiry_codes, BASE_OFFSETS)
        direct == _build_totals_split_for_index_day(split, expiry_codes, PAIR_OFFSETS)
    IN  IF DOMAIN direct = {} THEN _apply_pairs_from_base(base)
        ELSE [k \in DOMAIN direct |-> <<direct[k], 1>>]

\* One call of _apply_weekday_update per merge, each on the file of its key.
RECURSIVE MergeAll(_, _, _)
MergeAll(masters, merges, ts) ==
    IF merges = {} THEN masters
    ELSE LET m == CHOOSE x \in merges : TRUE
             f == <<m.exp, m.off, m.wcode>>
         IN  MergeAll([masters EXCEPT ![f] = _apply_weekday_update(@, m.tb, m.tot, ts).file],
                      merges \ {m}, ts)

IsTradingWeekdayAlways(wcode) == TRUE

\* wcode in ("mon", "tue", "wed", "thu", "fri")
IsTradingWeekday(wcode) == wcode \in {"mon", "tue", "wed", "thu", "fri"}

\* The loop over base.items().
BaseMerges(split, date_str, expiry_codes) ==
    LET base == _build_totals_split_for_index_day(split, expiry_codes, BASE_OFFSETS)
    IN  {[exp |-> k[1], off |-> k[2], tb |-> k[3], tot |-> base[k],
          wcode |-> weekday_code_from_date(date_str), kind |-> "base"] :
            k \in {x \in DOMAIN base : IsTradingWeekday(weekday_code_from_date(date_str))}}

PairMergesIntoBase(split, date_str, expiry_codes) ==
    LET pairs == pairs_from_files(split, expiry_codes)
    IN  {[exp |-> k[1], off |-> IF k[2] = "atm_p1m1" THEN "atm_p1" ELSE "atm_p2",
          tb |-> k[3], tot |-> Fmt6(pairs[k][1], pairs[k][2]),
          wcode |-> weekday_code_from_date(date_str), kind |-> "pair"] :
            k \in DOMAIN pairs}

\* The loop over pairs_from_files.items().
PairMerges(split, date_str, expiry_codes) ==
    LET pairs == pairs_from_files(split, expiry_codes)
    IN  {[exp |-> k[1], off |-> k[2], tb |-> k[3],
          tot |-> Fmt6(pairs[k][1], pairs[k][2]),
          wcode |-> weekday_code_from_date(date_str), kind |-> "pair"] :
            k \in DOMAIN pairs}

stream_update_for_latest_minute(masters, enable_streaming, date_str, split, expiry_codes, ts) ==
    IF ~enable_streaming THEN [masters |-> masters, updated |-> 0, merges |-> {}]
    ELSE LET merges == BaseMerges(split, date_str, expiry_codes)
                           \cup PairMerges(split, date_str, expiry_codes)
         IN  [masters |-> MergeAll(masters, merges, ts),
              updated |-> Cardinality(merges), merges |-> merges]

aggregate_eod_paired(masters, date_str, split, expiry_codes, ts) ==
    LET merges == PairMerges(split, date_str, expiry_codes)
    IN  [masters |-> MergeAll(masters, merges, ts),
         updated |-> Cardinality(merges), merges |-> merges]

NoStreamCall ==
    [op |-> "none", enabled |-> FALSE, merges |-> {}, updated |-> 0, skipped |-> FALSE]

storeButClock == <<adv, advLedger, bulk, bulkLedger, quota, last, merged, advRuns, bulkRuns>>

StreamSetup(date, nticks, neod, nday) ==
    /\ sdate = date
    /\ ssrc = NoRows
    /\ smaster = [f \in StreamFiles |-> AbsentFile]
    /\ sledger = [f \in StreamFiles |-> <<>>]
    /\ squota = [tick |-> nticks, eod |-> neod, day |-> nday]
    /\ slast = NoStreamCall
    /\ streamN = [f \in StreamFiles |-> [b \in StreamBuckets |-> 0]]

StreamIdle == StreamSetup(0, 0, 0, 0)

\* The split writer appends the rows of the next minute of the date.
AppendMinute ==
    /\ \E tb \in StreamBuckets :
          /\ tb \notin {k[3] : k \in DOMAIN ssrc}
          /\ \A b \in StreamBuckets : b < tb => b \in {k[3] : k \in DOMAIN ssrc}
          /\ \E shape \in MinuteShapes :
                ssrc' = [k \in (DOMAIN ssrc) \cup (StreamExpiries \X (DOMAIN shape) \X {tb}) |->
                           IF k \in DOMAIN ssrc THEN ssrc[k] ELSE shape[k[2]]]
    /\ UNCHANGED <<sdate, smaster, sledger, squota, slast, streamN>>
    /\ UNCHANGED <<storeVars, writerVars, pairVars, sessionVars, schedVars, dayVars, raceVars>>

StreamTickLedgerGated ==
    /\ squota.tick > 0
    /\ \E enable_streaming \in BOOLEAN :
          LET r     == stream_update_for_latest_minute(smaster, enable_streaming, sdate,
                                                       ssrc, StreamExpiries, now)
              gated == {m \in r.merges : ~InLedger(sledger[<<m.exp, m.off, m.wcode>>], sdate)}
              files == {<<m.exp, m.off, m.wcode>> : m \in gated}
          IN  /\ smaster' = MergeAll(smaster, gated, now)
              /\ sledger' = [f \in StreamFiles |->
                               IF f \in files THEN append_ledger(sledger[f], sdate)
                               ELSE sledger[f]]
              /\ slast' = [op |-> "stream", enabled |-> enable_streaming,
                           merges |-> gated, updated |-> Cardinality(gated), skipped |-> FALSE]
              /\ streamN' = [f \in StreamFiles |-> [b \in StreamBuckets |->
                               streamN[f][b] + Cardinality({m \in gated :
                                   <<m.exp, m.off, m.wcode>> = f /\ m.tb = b})]]
    /\ squota' = [squota EXCEPT !.tick = @ - 1]
    /\ now' = now + 1
    /\ UNCHANGED <<sdate, ssrc>>
    /\ UNCHANGED <<storeButClock, writerVars, pairVars, sessionVars, schedVars, dayVars, raceVars>>

\* One scheduler tick: stream_update_for_latest_minute(config, date_str, ...).
StreamTick ==
    /\ squota.tick > 0
    /\ \E enable_streaming \in BOOLEAN :
          LET r == stream_update_for_latest_minute(smaster, enable_streaming, sdate,
                                                   ssrc, StreamExpiries, now)
          IN  /\ smaster' = r.masters
              /\ slast' = [op |-> "stream", enabled |-> enable_streaming,
                           merges |-> r.merges, updated |-> r.updated, skipped |-> FALSE]
              /\ streamN' = [f \in StreamFiles |-> [b \in StreamBuckets |->
                               streamN[f][b] + Cardinality({m \in r.merges :
                                   <<m.exp, m.off, m.wcode>> = f /\ m.tb = b})]]
    /\ squota' = [squota EXCEPT !.tick = @ - 1]
    /\ now' = now + 1
    /\ UNCHANGED <<sdate, ssrc, sledger>>
    /\ UNCHANGED <<storeButClock, writerVars, pairVars, sessionVars, schedVars, dayVars, raceVars>>

\* The 'eod' mode of the aggregator: aggregate_eod_paired(cfg, idx, date_str, ...).
PairedEod ==
    /\ squota.eod > 0
    /\ LET r == aggregate_eod_paired(smaster, sdate, ssrc, StreamExpiries, now)
       IN  /\ smaster' = r.masters
           /\ slast' = [op |-> "eod_paired", enabled |-> TRUE,
                        merges |-> r.merges, updated |-> r.updated, skipped |-> FALSE]
    /\ squota' = [squota EXCEPT !.eod = @ - 1]
    /\ now' = now + 1
    /\ UNCHANGED <<sdate, ssrc, sledger, streamN>>
    /\ UNCHANGED <<storeButClock, writerVars, pairVars, sessionVars, schedVars, dayVars, raceVars>>

\* aggregate_day_for_key with date_str on the atm master the stream feeds.
StreamDayEod ==
    /\ squota.day > 0
    /\ \E rows \in {r \in RawInputs : Len(r) = 1} :
          LET f   == <<"this_week", "atm", weekday_code_from_date(sdate)>>
              key == [index |-> "SENSEX", expiry_code |-> f[1], strike_offset |-> f[2],
                      weekday |-> f[3]]
              r   == aggregate_day_for_key(smaster[f], sledger[f], key, rows,
                                           FALSE, TRUE, sdate, now)
          IN  /\ smaster' = [smaster EXCEPT ![f] = r.file]
              /\ sledger' = [sledger EXCEPT ![f] = r.ledger]
              /\ slast' = [op |-> "day_eod", enabled |-> TRUE,
                           merges |-> {}, updated |-> Len(r.hits), skipped |-> r.skipped]
    /\ squota' = [squota EXCEPT !.day = @ - 1]
    /\ now' = now + 1
    /\ UNCHANGED <<sdate, ssrc, streamN>>
    /\ UNCHANGED <<storeButClock, writerVars, pairVars, sessionVars, schedVars, dayVars, raceVars>>

-----------------------------------------------------------------------------
(* market_session.main: the Session Orchestrator *)

MaxBeats == 2

\* The fields of the frozen dataclass SessionConfig.
SessionConfigFields ==
    {"MARKET_TIMEZONE", "SESSION_START_HHMM", "SESSION_END_HHMM", "INDEX_LIST",
     "SOURCES", "OFFSETS", "DATE_FMT", "ENABLE_PREFLIGHT", "ENABLE_ADV_METRICS",
     "ADV_METRICS_TICK_SECONDS", "EOD_RUN_ENABLED"}

\* The attributes of cfg that the call of _run_bulk_eod reads.
EodArguments == {"CSV_SPLIT_ROOT", "WEEKDAY_ROOT", "EOD_USE_LEDGER"}

\* The wall clock counts half seconds: 0 is a full second before the session
\* start, 1 half a second before it, OpenAt..CloseAt the session window.
TicksPerSecond == 2
OpenAt == 2
CloseAt == 2
Clocks == 0..(CloseAt + 1)

\* session_time.is_in_session(now, start, end): start <= t <= end
is_in_session(clock) == OpenAt <= clock /\ clock <= CloseAt

\* session_time.seconds_until_hhmm(now, hhmm):
\* 0 if target <= now, else int((target - now).total_seconds())
seconds_until_hhmm(clock, hhmm) ==
    IF hhmm <= clock THEN 0 ELSE (hhmm - clock) \div TicksPerSecond

\* secs > 0 in main(), secs = seconds_until_hhmm(now_ist, SESSION_START_HHMM)
BeforeOpen(clock) == seconds_until_hhmm(clock, OpenAt) > 0

\* session_tasks.preflight_check(): warns about missing variables, returns True.
preflight_check == TRUE

\* _stop_process(proc, name)
_stop_process(proc) == IF proc = "none" THEN "none" ELSE "stopped"

\* Return codes of the bulk end-of-day subprocess (130: interrupted).
EodReturnCodes == {0, 1, 130}

\* started: the clock main() was started at (history).
NewRun == [summaries |-> 0, eod |-> 0, rc |-> 0, beats |-> 0, intr |-> "none",
           ended |-> "no", started |-> 0]

SessionSetup(clock, cfg, nbeats) ==
    /\ opc = "STARTING"
    /\ otrace = <<"STARTING">>
    /\ oclock = clock
    /\ ocfg = cfg
    /\ helper = "unstarted"
    /\ orun = [NewRun EXCEPT !.beats = nbeats, !.started = clock]
    /\ hprocs = [started |-> 0, alive |-> 0]

SessionIdle ==
    SessionSetup(0, [preflight |-> TRUE, metrics |-> FALSE, eod |-> TRUE], 0)

\* _start_system_metrics_writer(): a new process, or None when psutil is
\* missing or Popen fails.
StartHelper ==
    \E proc \in {"running", "none"} :
       /\ helper' = proc
       /\ hprocs' = IF proc = "running"
                    THEN [started |-> hprocs.started + 1, alive |-> hprocs.alive + 1]
                    ELSE hprocs

\* _stop_process(sys_metrics_proc, ...): terminate() the process if it runs.
StopHelper ==
    /\ helper' = _stop_process(helper)
    /\ hprocs' = IF helper = "running" THEN [hprocs EXCEPT !.alive = @ - 1] ELSE hprocs

Enter(state) ==
    /\ opc' = state
    /\ otrace' = Append(otrace, state)

\* _print_summary(...); _stop_process(sys_metrics_proc, ...); return rc
SummaryAndStop(rc, intr) ==
    /\ orun' = [orun EXCEPT !.summaries = @ + 1, !.rc = rc, !.intr = intr,
                            !.ended = "returned"]
    /\ StopHelper

\* The wall clock moves on while main() runs.
ClockAdvances ==
    /\ orun.ended = "no"
    /\ oclock <= CloseAt
    /\ oclock' = oclock + 1
    /\ UNCHANGED <<opc, otrace, ocfg, helper, orun, hprocs, nonSessionVars>>

\* The helper process dies on its own.
HelperDies ==
    /\ orun.ended = "no"
    /\ helper = "running"
    /\ helper' = "dead"
    /\ hprocs' = [hprocs EXCEPT !.alive = @ - 1]
    /\ UNCHANGED <<opc, otrace, oclock, ocfg, orun, nonSessionVars>>

\* main() up to the wait for the open: _start_system_metrics_writer().
SessionStart ==
    /\ opc = "STARTING"
    /\ StartHelper
    /\ Enter("WAITING_FOR_OPEN")
    /\ UNCHANGED <<oclock, ocfg, orun, nonSessionVars>>

\* time.sleep(min(30, secs)) and the pre-open heartbeat after it.
WaitHeartbeat ==
    /\ opc = "WAITING_FOR_OPEN" /\ orun.ended = "no"
    /\ BeforeOpen(oclock)
    /\ orun.beats > 0
    /\ orun' = [orun EXCEPT !.beats = @ - 1]
    /\ UNCHANGED <<opc, otrace, oclock, ocfg, helper, hprocs, nonSessionVars>>

InterruptWhileWaitingFallsThrough ==
    /\ opc = "WAITING_FOR_OPEN" /\ orun.ended = "no"
    /\ BeforeOpen(oclock)
    /\ orun' = [orun EXCEPT !.intr = "waiting"]
    /\ Enter("ACTIVE")
    /\ UNCHANGED <<oclock, ocfg, helper, hprocs, nonSessionVars>>

\* except KeyboardInterrupt: around the wait loop.
InterruptWhileWaiting ==
    /\ opc = "WAITING_FOR_OPEN" /\ orun.ended = "no"
    /\ BeforeOpen(oclock)
    /\ SummaryAndStop(130, "waiting")
    /\ Enter("DONE")
    /\ UNCHANGED <<oclock, ocfg, nonSessionVars>>

\* The wait is over (or there was none): the preflight check, then the session.
SessionOpens ==
    /\ opc = "WAITING_FOR_OPEN" /\ orun.ended = "no"
    /\ ~BeforeOpen(oclock)
    /\ IF ocfg.preflight /\ ~preflight_check
       THEN /\ SummaryAndStop(1, orun.intr)
            /\ Enter("PREFLIGHT_FAILED")
       ELSE /\ Enter("ACTIVE")
            /\ UNCHANGED <<helper, orun, hprocs>>
    /\ UNCHANGED <<oclock, ocfg, nonSessionVars>>

ActiveBeatRestartsUnchecked ==
    /\ opc = "ACTIVE"
    /\ is_in_session(oclock)
    /\ orun.beats > 0
    /\ orun' = [orun EXCEPT !.beats = @ - 1]
    /\ IF ~ocfg.metrics
       THEN StartHelper
       ELSE UNCHANGED <<helper, hprocs>>
    /\ UNCHANGED <<opc, otrace, oclock, ocfg, nonSessionVars>>

ActiveBeatNeverRestarts ==
    /\ opc = "ACTIVE"
    /\ is_in_session(oclock)
    /\ orun.beats > 0
    /\ orun' = [orun EXCEPT !.beats = @ - 1]
    /\ UNCHANGED <<helper, hprocs>>
    /\ UNCHANGED <<opc, otrace, oclock, ocfg, nonSessionVars>>

\* One liveness-poll interval of the session: the on_tick calls of
\* run_minutely, which does not look at the helper process, or the sleeps of
\* the idle loop up to and with its 30 s check of the helper process.
ActiveBeat ==
    /\ opc = "ACTIVE"
    /\ is_in_session(oclock)
    /\ orun.beats > 0
    /\ orun' = [orun EXCEPT !.beats = @ - 1]
    /\ IF ~ocfg.metrics /\ helper \in {"dead", "none"}
       THEN StartHelper
       ELSE UNCHANGED <<helper, hprocs>>
    /\ UNCHANGED <<opc, otrace, oclock, ocfg, nonSessionVars>>

\* should_continue() is false, or the idle loop breaks: the clock is outside
\* the window.  run_minutely sleeps to the next minute boundary before its
\* first call of should_continue(), which from the last second before the
\* session start is the session start: the idle loop tests at once.
SessionEnds ==
    /\ opc = "ACTIVE"
    /\ ~is_in_session(oclock)
    /\ ocfg.metrics => OpenAt <= oclock
    /\ Enter("EOD_RUN")
    /\ UNCHANGED <<oclock, ocfg, helper, orun, hprocs, nonSessionVars>>

InterruptWhileActiveSkipsEod ==
    /\ opc = "ACTIVE"
    /\ is_in_session(oclock)
    /\ SummaryAndStop(130, "active")
    /\ Enter("DONE")
    /\ UNCHANGED <<oclock, ocfg, nonSessionVars>>

\* except KeyboardInterrupt: around run_minutely and around the idle loop.
InterruptWhileActive ==
    /\ opc = "ACTIVE"
    /\ is_in_session(oclock)
    /\ orun' = [orun EXCEPT !.intr = "active"]
    /\ Enter("EOD_RUN")
    /\ UNCHANGED <<oclock, ocfg, helper, hprocs, nonSessionVars>>

\* From "At/after session end" to the return: the bulk end-of-day run if it
\* is enabled, the summary, the stop of the helper.  Reading cfg.CSV_SPLIT_ROOT
\* raises AttributeError when SessionConfig has no such field.
EodRun ==
    /\ opc = "EOD_RUN" /\ orun.ended = "no"
    /\ IF ~ocfg.eod
       THEN /\ SummaryAndStop(0, orun.intr)
            /\ Enter("DONE")
       ELSE IF EodArguments \subseteq SessionConfigFields
       THEN /\ \E eod_rc \in EodReturnCodes :
                  /\ orun' = [orun EXCEPT !.summaries = @ + 1, !.eod = @ + 1,
                                          !.rc = eod_rc, !.ended = "returned"]
            /\ StopHelper
            /\ Enter("DONE")
       ELSE /\ orun' = [orun EXCEPT !.ended = "raised"]
            /\ UNCHANGED <<opc, otrace, helper, hprocs>>
    /\ UNCHANGED <<oclock, ocfg, nonSessionVars>>

-----------------------------------------------------------------------------
(* minute_scheduler.run_minutely *)

MaxBoundary == 3

Boundaries == 0..MaxBoundary

NoStat == [evals |-> 0, ticks |-> 0, pred |-> "none", outcome |-> "none"]

SchedSetup(pc) ==
    /\ rpc = pc
    /\ rboundary = 0
    /\ rbounds = {}
    /\ rstat = [b \in Boundaries |-> NoStat]

SchedIdle == SchedSetup("idle")

\* now.replace(second=0, microsecond=0) without the minute added to it.
BoundariesFromNow(b) == {x \in Boundaries : x >= b}

\* wait_until_next_minute_boundary: the first boundary after now, which is
\* the next minute, or a later one if the callback ran past a boundary.
NextBoundaries(b) == {x \in Boundaries : x > b}

\* boundary = wait_until_next_minute_boundary(tz_name), or now().astimezone()
\* when align_immediately is false.
SchedAlign ==
    /\ rpc = "start"
    /\ \E b \in Boundaries :
          /\ b < MaxBoundary
          /\ rboundary' = b
          /\ rbounds' = {b}
    /\ rpc' = "test"
    /\ UNCHANGED <<rstat, nonSchedVars>>

SchedTestIgnored ==
    /\ rpc = "test"
    /\ \E result \in BOOLEAN :
          rstat' = [rstat EXCEPT ![rboundary].evals = @ + 1,
                                 ![rboundary].pred = IF result THEN "true" ELSE "false"]
    /\ rpc' = "tick"
    /\ UNCHANGED <<rboundary, rbounds, nonSchedVars>>

\* while should_continue():
SchedTest ==
    /\ rpc = "test"
    /\ \E result \in BOOLEAN :
          /\ rstat' = [rstat EXCEPT ![rboundary].evals = @ + 1,
                                    ![rboundary].pred = IF result THEN "true" ELSE "false"]
          /\ rpc' = IF result THEN "tick" ELSE "returned"
    /\ UNCHANGED <<rboundary, rbounds, nonSchedVars>>

SchedTickErrorStops ==
    /\ rpc = "tick"
    /\ \E outcome \in {"ok", "error", "interrupt"} :
          /\ rstat' = [rstat EXCEPT ![rboundary].ticks = @ + 1,
                                    ![rboundary].outcome = outcome]
          /\ rpc' = IF outcome = "ok" THEN "wait" ELSE "raised"
    /\ UNCHANGED <<rboundary, rbounds, nonSchedVars>>

\* try: on_tick(boundary) / except Exception: print(...).  A KeyboardInterrupt
\* is no Exception and leaves run_minutely.
SchedTick ==
    /\ rpc = "tick"
    /\ \E outcome \in {"ok", "error", "interrupt"} :
          /\ rstat' = [rstat EXCEPT ![rboundary].ticks = @ + 1,
                                    ![rboundary].outcome = outcome]
          /\ rpc' = IF outcome = "interrupt" THEN "raised" ELSE "wait"
    /\ UNCHANGED <<rboundary, rbounds, nonSchedVars>>

\* boundary = wait_until_next_minute_boundary(tz_name), at the end of the body.
SchedWait ==
    /\ rpc = "wait"
    /\ \E b \in NextBoundaries(rboundary) :
          /\ rboundary' = b
          /\ rbounds' = rbounds \cup {b}
    /\ rpc' = "test"
    /\ UNCHANGED <<rstat, nonSchedVars>>

-----------------------------------------------------------------------------
(* The entry points over several days: adv_aggregator.__main__,              *)
(* adv_weekday_eod.main and weekday_master_bulk_cli.main with their          *)
(* arguments, and which master file a date's observations are merged into.   *)

MaxDayOps == 2

\* A Monday, the Saturday after it and the Monday after that.
DayDates == {0, 5, 7}

\* A --date that is no calendar date, such as 2025-13-45.
MalformedDate == NaV

DateArgs == DayDates \cup {MalformedDate}

\* The expiry-bucket codes: adv_paths.raw_path_for knows these and no other.
KnownSources == {"overview", "this_week", "next_week", "this_month", "next_month"}

ExpiryArgs == {{"this_week"}, {"this_week", "weekly"}, {"weekly"}}

NoEntry ==
    [op |-> "none", date |-> 0, expiries |-> {}, status |-> 0, mutated |-> FALSE,
     good |-> 0, merged |-> 0]

\* The daily csvs found for a date; one of them has a row whose ts_ist is no
\* timestamp before a well-formed row.
DayFoundInputs ==
    FoundInputs \cup
    {<<[key |-> k, daily |-> <<DailyRow(10 * Unit, Garbage), DailyRow(10 * Unit, 555)>>]>> :
        k \in BulkKeys}

\* The rows of a source that are well-formed and in session.
GoodDaily(daily) ==
    Len(SelectSeq(daily, LAMBDA row :
                     DailyAccepted(row, SESSION_START_HHMM, SESSION_END_HHMM)))

GoodRaw(rows, agg_key) == Len(SelectSeq(rows, LAMBDA row : RowAccepted(row, agg_key)))

\* The merges a pass made into a bulk master: the growth of its counters.
CounterOf(f, hhmm) == IF f.exists /\ hhmm \in DOMAIN f.rows THEN f.rows[hhmm].cnt ELSE 0

CounterGrowth(before, after) ==
    (CounterOf(after, 555) - CounterOf(before, 555))
       + (CounterOf(after, 556) - CounterOf(before, 556))

DaysSetup(clock) ==
    /\ dadv = [f \in StreamFiles |-> AbsentFile]
    /\ dadvLedger = [f \in StreamFiles |-> <<>>]
    /\ dbulk = [k \in BulkKeys |-> AbsentFile]
    /\ dbulkLedger = [k \in BulkKeys |-> <<>>]
    /\ ddates = [f \in StreamFiles |-> {}]
    /\ dbulkDates = [k \in BulkKeys |-> {}]
    /\ dlast = NoEntry
    /\ dclock = clock

DaysIdle == DaysSetup(MaxDayOps)

\* dt.date.fromisoformat(date_str) and strptime(date_str, "%Y-%m-%d") succeed.
IsIsoDate(date_str) == date_str \in DayDates

\* The split files <root>/<index>/<expiry>/<offset>/<date>.csv that exist:
\* the split writer names them by the day it runs on and by the expiry
\* buckets it logs, so none exists for a malformed date or an unknown code.
DaySplit(date_str, expiry_codes, shape) ==
    IF ~IsIsoDate(date_str) THEN NoRows
    ELSE [k \in (expiry_codes \cap StreamExpiries) \X (DOMAIN shape) \X {555} |-> shape[k[2]]]

Dated(dates, files, date) ==
    [f \in DOMAIN dates |-> IF f \in files THEN dates[f] \cup {date} ELSE dates[f]]

\* adv_aggregator.__main__: date_str = args.date is not parsed before the
\* loops; strptime raises at the first total when it is malformed.
aggregator_main(mode, masters, date_str, split, expiry_codes, ts) ==
    LET r == IF mode = "stream"
             THEN stream_update_for_latest_minute(masters, TRUE, date_str, split,
                                                  expiry_codes, ts)
             ELSE aggregate_eod_paired(masters, date_str, split, expiry_codes, ts)
    IN  IF r.merges # {} /\ ~IsIsoDate(date_str)
        THEN [masters |-> masters, merges |-> {}, status |-> 1]
        ELSE [masters |-> r.masters, merges |-> r.merges, status |-> 0]

\* adv_weekday_eod.main for the offset atm: return 2 on an invalid --date; a
\* source raw_path_for does not know, or whose raw file is missing, is
\* warned about and passed over; return 0.
adv_weekday_eod_main(masters, ledgers, date_str, sources, rows, ts) ==
    IF ~IsIsoDate(date_str)
    THEN [masters |-> masters, ledgers |-> ledgers, hits |-> <<>>, good |-> 0,
          status |-> 2]
    ELSE LET weekday == weekday_code_from_date(date_str)
             f       == <<"this_week", "atm", weekday>>
             agg_key == [index |-> "SENSEX", expiry_code |-> "this_week",
                         strike_offset |-> "atm", weekday |-> weekday]
             r       == aggregate_day_for_key(masters[f], ledgers[f], agg_key, rows,
                                              FALSE, TRUE, date_str, ts)
         IN  IF "this_week" \in sources \cap KnownSources
             THEN [masters |-> [masters EXCEPT ![f] = r.file],
                   ledgers |-> [ledgers EXCEPT ![f] = r.ledger],
                   hits |-> r.hits,
                   good |-> IF r.skipped THEN 0 ELSE GoodRaw(rows, agg_key),
                   status |-> 0]
             ELSE [masters |-> masters, ledgers |-> ledgers, hits |-> <<>>, good |-> 0,
                   status |-> 0]

\* weekday_master_bulk_cli.main: date.fromisoformat in run_bulk_eod raises on
\* a malformed --date, and so does a failing os.replace; otherwise return 0.
bulk_cli_main(files, ledgers, date_iso, use_ledger, found) ==
    IF ~IsIsoDate(date_iso)
    THEN [bulk |-> files, ledger |-> ledgers, hit |-> {}, status |-> 1]
    ELSE LET r == run_bulk_eod(files, ledgers, found, date_iso, use_ledger, {})
         IN  [bulk |-> r.bulk, ledger |-> r.ledger, hit |-> r.hit \cap r.wrote,
              status |-> IF r.raised THEN 1 ELSE 0]

Entry(op, date, expiries, status, mutated, good, nmerged) ==
    [op |-> op, date |-> date, expiries |-> expiries, status |-> status,
     mutated |-> mutated, good |-> good, merged |-> nmerged]

\* python -m adv_aggregator --mode stream --date date --expiries ...
DaysStream ==
    /\ dclock < MaxDayOps
    /\ \E date \in DateArgs, expiries \in ExpiryArgs, shape \in MinuteShapes :
          LET r == aggregator_main("stream", dadv, date, DaySplit(date, expiries, shape),
                                   expiries, dclock)
          IN  /\ dadv' = r.masters
              /\ ddates' = Dated(ddates, {<<m.exp, m.off, m.wcode>> : m \in r.merges}, date)
              /\ dlast' = Entry("stream", date, expiries, r.status, r.masters # dadv,
                                Cardinality(r.merges), Cardinality(r.merges))
    /\ dclock' = dclock + 1
    /\ UNCHANGED <<dadvLedger, dbulk, dbulkLedger, dbulkDates, nonDayVars>>

\* python -m adv_aggregator --mode eod --date date --expiries ...
DaysPairedEod ==
    /\ dclock < MaxDayOps
    /\ \E date \in DateArgs, expiries \in ExpiryArgs, shape \in MinuteShapes :
          LET r == aggregator_main("eod", dadv, date, DaySplit(date, expiries, shape),
                                   expiries, dclock)
          IN  /\ dadv' = r.masters
              /\ ddates' = Dated(ddates, {<<m.exp, m.off, m.wcode>> : m \in r.merges}, date)
              /\ dlast' = Entry("eod", date, expiries, r.status, r.masters # dadv,
                                Cardinality(r.merges), Cardinality(r.merges))
    /\ dclock' = dclock + 1
    /\ UNCHANGED <<dadvLedger, dbulk, dbulkLedger, dbulkDates, nonDayVars>>

\* python -m adv_weekday_eod --date date --sources ...
DaysRawEod ==
    /\ dclock < MaxDayOps
    /\ \E date \in DateArgs, sources \in ExpiryArgs, rows \in RawInputs :
          LET r == adv_weekday_eod_main(dadv, dadvLedger, date, sources, rows, dclock)
          IN  /\ dadv' = r.masters
              /\ dadvLedger' = r.ledgers
              /\ ddates' = Dated(ddates,
                                 IF r.hits # <<>>
                                 THEN {<<"this_week", "atm", weekday_code_from_date(date)>>}
                                 ELSE {}, date)
              /\ dlast' = Entry("raw_eod", date, sources, r.status,
                                r.masters # dadv \/ r.ledgers # dadvLedger,
                                r.good, Len(r.hits))
    /\ dclock' = dclock + 1
    /\ UNCHANGED <<dbulk, dbulkLedger, dbulkDates, nonDayVars>>

\* python -m weekday_master_bulk_cli --date date [--no-ledger]
DaysBulkEod ==
    /\ dclock < MaxDayOps
    /\ \E date \in DateArgs, use_ledger \in BOOLEAN, found \in DayFoundInputs :
          LET r == bulk_cli_main(dbulk, dbulkLedger, date, use_ledger,
                                 IF IsIsoDate(date) THEN found ELSE <<>>)
          IN  /\ dbulk' = r.bulk
              /\ dbulkLedger' = r.ledger
              /\ dbulkDates' = Dated(dbulkDates, r.hit, date)
              /\ dlast' = Entry("bulk", date, KnownSources, r.status,
                                r.bulk # dbulk \/ r.ledger # dbulkLedger,
                                IF IsIsoDate(date) /\ found # <<>>
                                   /\ ~(use_ledger /\ InLedger(dbulkLedger[found[1].key], date))
                                THEN GoodDaily(found[1].daily) ELSE 0,
                                IF found = <<>> THEN 0
                                ELSE CounterGrowth(dbulk[found[1].key], r.bulk[found[1].key]))
    /\ dclock' = dclock + 1
    /\ UNCHANGED <<dadv, dadvLedger, ddates, nonDayVars>>

-----------------------------------------------------------------------------
(* adv_io.write_weekday_master and weekday_master_bulk.write_master_atomic,   *)
(* one statement at a time, beside a reader of the master file.              *)

MaxWrites == 2

RETRIES == 5

SLEEP_BASE == 2

SLEEP_STEP == 2

HeaderLine == [hdr |-> TRUE]

NoFile == [exists |-> FALSE, lines |-> <<>>]

RECURSIVE SortedKeys(_)
SortedKeys(S) ==
    IF S = {} THEN <<>>
    ELSE LET m == CHOOSE x \in S : \A y \in S : x <= y
         IN  <<m>> \o SortedKeys(S \ {m})

\* What write_to_file / the csv.writer loop puts in a file: the header, then
\* one line per time bucket in ascending order.
CsvLines(rows) ==
    LET ks == SortedKeys(DOMAIN rows)
    IN  <<HeaderLine>> \o [i \in 1..Len(ks) |-> [tb |-> ks[i], n |-> rows[ks[i]]]]

\* The rows csv.DictReader parses out of the lines of a file.
CsvRows(f) ==
    IF ~f.exists THEN NoRows
    ELSE LET ls == {f.lines[i] : i \in {j \in 1..Len(f.lines) : f.lines[j] # HeaderLine}}
         IN  [tb \in {l.tb : l \in ls} |-> (CHOOSE l \in ls : l.tb = tb).n]

SleepConstant(attempt) == SLEEP_BASE

\* time.sleep(0.2 + 0.2 * attempt)
SleepFor(attempt) == SLEEP_BASE + SLEEP_STEP * attempt

ExhaustedAtOnce(attempt) == TRUE

\* for attempt in range(5): the loop is over
Exhausted(attempt) == attempt >= RETRIES

\* Whether the writer goes through a temporary file and os.replace.
UsesTmp(kind, atomic) == kind = "bulk" \/ atomic

\* kind is the writer of the run ("weekday": write_weekday_master, "bulk":
\* write_master_atomic), atomic the ATOMIC_CSV_WRITES flag of its configuration.
WriterInit(kind, atomic, nwrites) ==
    /\ wcall = [kind |-> kind, atomic |-> atomic, lines |-> <<>>, old |-> NoFile]
    /\ wpc = "idle"
    /\ wattempt = 0
    /\ wdelays = <<>>
    /\ wpos = 0
    /\ wleft = nwrites
    /\ target = NoFile
    /\ tmp = NoFile
    /\ obs = [file |-> NoFile, torn |-> FALSE, attempt |-> 0]

\* The caller has merged one observation into bucket tb of the rows it read
\* and calls the writer with the whole map.
WStart(tb) ==
    /\ wpc \in {"idle", "returned", "raised"}
    /\ wleft > 0
    /\ wleft' = wleft - 1
    /\ LET rows == CsvRows(target)
           n    == IF tb \in DOMAIN rows THEN rows[tb] + 1 ELSE 1
       IN  wcall' = [wcall EXCEPT !.lines = CsvLines(Put(rows, tb, n)), !.old = target]
    /\ wpc' = IF UsesTmp(wcall.kind, wcall.atomic) THEN "mktmp" ELSE "open_path"
    /\ wattempt' = 0
    /\ wdelays' = <<>>
    /\ wpos' = 0
    /\ UNCHANGED <<target, tmp, obs, nonWriterVars>>

\* tempfile.mkstemp / open(tmp, "w"), the rows, close: the temporary file is
\* private to the writer.
WWriteTmp ==
    /\ wpc = "mktmp"
    /\ tmp' = [exists |-> TRUE, lines |-> wcall.lines]
    /\ wpc' = "replace"
    /\ UNCHANGED <<wcall, wattempt, wdelays, wpos, wleft, target, obs, nonWriterVars>>

\* os.replace(tmp, path) succeeds.
WReplaceOk ==
    /\ wpc = "replace"
    /\ target' = tmp
    /\ tmp' = NoFile
    /\ wpc' = IF wcall.kind = "bulk" THEN "returned" ELSE "finally"
    /\ UNCHANGED <<wcall, wattempt, wdelays, wpos, wleft, obs, nonWriterVars>>

\* os.replace raises PermissionError: write_master_atomic lets it propagate,
\* write_weekday_master sleeps and goes round the loop, or leaves it.
WReplaceDenied ==
    /\ wpc = "replace"
    /\ IF wcall.kind = "bulk"
       THEN /\ wpc' = "raised"
            /\ UNCHANGED <<wattempt, wdelays>>
       ELSE /\ wdelays' = Append(wdelays, SleepFor(wattempt))
            /\ wattempt' = wattempt + 1
            /\ wpc' = IF Exhausted(wattempt + 1) THEN "open_path" ELSE "replace"
    /\ UNCHANGED <<wcall, wpos, wleft, target, tmp, obs, nonWriterVars>>

\* write_to_file(path): open(path, "w") truncates the master file.
WOpenPath ==
    /\ wpc = "open_path"
    /\ target' = [exists |-> TRUE, lines |-> <<>>]
    /\ wpos' = 0
    /\ wpc' = "write_path"
    /\ UNCHANGED <<wcall, wattempt, wdelays, wleft, tmp, obs, nonWriterVars>>

\* write_to_file(path): the next line reaches the master file; after the last
\* one the file is closed.
WWritePath ==
    /\ wpc = "write_path"
    /\ wpos < Len(wcall.lines)
    /\ target' = [exists |-> TRUE, lines |-> Append(target.lines, wcall.lines[wpos + 1])]
    /\ wpos' = wpos + 1
    /\ wpc' = IF wpos + 1 < Len(wcall.lines) THEN "write_path"
              ELSE IF wcall.atomic THEN "finally" ELSE "returned"
    /\ UNCHANGED <<wcall, wattempt, wdelays, wleft, tmp, obs, nonWriterVars>>

\* finally: if os.path.exists(tmp): os.remove(tmp)
WFinally ==
    /\ wpc = "finally"
    /\ tmp' = NoFile
    /\ wpc' = "returned"
    /\ UNCHANGED <<wcall, wattempt, wdelays, wpos, wleft, target, obs, nonWriterVars>>

\* Another process opens the master file and reads it; torn: what it reads is
\* neither the file as it was before the write nor the file being written.
ReaderReads ==
    /\ obs' = [file |-> target,
               torn |-> target # wcall.old
                        /\ target # [exists |-> TRUE, lines |-> wcall.lines],
               attempt |-> wattempt]
    /\ UNCHANGED <<wcall, wpc, wattempt, wdelays, wpos, wleft, target, tmp, nonWriterVars>>

-----------------------------------------------------------------------------
(* Two processes in _apply_weekday_update on one master file, with atomic    *)
(* writes enabled: each reads the file, merges one observation and calls     *)
(* write_weekday_master, one statement at a time.  A row is its n_tot.       *)

MaxRaceMerges == 3

Writers == {1, 2}

TmpNameShared(w) == 0

\* tempfile.mkstemp(prefix=".tmp_", dir=d, suffix=".csv"): a name no other
\* call is given.
TmpName(w) == w

\* csv.DictReader over the lines of a file: a header line met as a data row
\* fails int() and is skipped, a later row of a bucket replaces an earlier.
RaceRows(f) ==
    IF ~f.exists THEN NoRows
    ELSE LET at == {i \in 1..Len(f.lines) : f.lines[i] # HeaderLine}
             lastOf(tb) == CHOOSE i \in at :
                              /\ f.lines[i].tb = tb
                              /\ \A j \in at : f.lines[j].tb = tb => j <= i
         IN  [tb \in {f.lines[i].tb : i \in at} |-> f.lines[lastOf(tb)].n]

IdleWriter == [pc |-> "idle", tb |-> 0, rows |-> NoRows, pos |-> 0, attempt |-> 0]

RaceSetup(nmerges) ==
    /\ cfile = NoFile
    /\ ctmp = [t \in {TmpName(w) : w \in Writers} |-> NoFile]
    /\ cw = [w \in Writers |-> IdleWriter]
    /\ crace = [left |-> nmerges, done |-> [tb \in Buckets |-> 0],
                renames |-> 0, fallbacks |-> 0]

RaceIdle == RaceSetup(0)

\* existing = read_weekday_master(path); existing[tb] = updated
RaceRead ==
    \E w \in Writers, tb \in Buckets :
       /\ cw[w].pc = "idle"
       /\ crace.left > 0
       /\ crace' = [crace EXCEPT !.left = @ - 1]
       /\ LET existing == RaceRows(cfile)
              n == IF tb \in DOMAIN existing THEN existing[tb] + 1 ELSE 1
          IN  cw' = [cw EXCEPT ![w] = [pc |-> "mktmp", tb |-> tb,
                                       rows |-> Put(existing, tb, n),
                                       pos |-> 0, attempt |-> 0]]
       /\ UNCHANGED <<cfile, ctmp, nonRaceVars>>

\* tempfile.mkstemp; open(tmp, "w")
RaceMkTmp ==
    \E w \in Writers :
       /\ cw[w].pc = "mktmp"
       /\ ctmp' = [ctmp EXCEPT ![TmpName(w)] = [exists |-> TRUE, lines |-> <<>>]]
       /\ cw' = [cw EXCEPT ![w].pc = "write_tmp"]
       /\ UNCHANGED <<cfile, crace, nonRaceVars>>

\* write_to_file(tmp): the next line; after the last one the file is closed.
RaceWriteTmp ==
    \E w \in Writers :
       /\ cw[w].pc = "write_tmp"
       /\ LET lines == CsvLines(cw[w].rows) IN
          /\ ctmp' = [ctmp EXCEPT ![TmpName(w)] =
                         [exists |-> TRUE, lines |-> Append(@.lines, lines[cw[w].pos + 1])]]
          /\ cw' = [cw EXCEPT ![w].pos = @ + 1,
                              ![w].pc = IF cw[w].pos + 1 < Len(lines)
                                        THEN "write_tmp" ELSE "replace"]
       /\ UNCHANGED <<cfile, crace, nonRaceVars>>

\* os.replace(tmp, path) succeeds; return (the finally clause finds no tmp).
RaceReplaceOk ==
    \E w \in Writers :
       /\ cw[w].pc = "replace"
       /\ ctmp[TmpName(w)].exists
       /\ cfile' = ctmp[TmpName(w)]
       /\ ctmp' = [ctmp EXCEPT ![TmpName(w)] = NoFile]
       /\ cw' = [cw EXCEPT ![w].pc = "idle"]
       /\ crace' = [crace EXCEPT !.renames = @ + 1, !.done[cw[w].tb] = @ + 1]
       /\ UNCHANGED nonRaceVars

\* except PermissionError: time.sleep(0.2 + 0.2 * attempt)
RaceReplaceDenied ==
    \E w \in Writers :
       /\ cw[w].pc = "replace"
       /\ cw' = [cw EXCEPT ![w].attempt = @ + 1,
                           ![w].pc = IF Exhausted(cw[w].attempt + 1)
                                     THEN "open_path" ELSE "replace"]
       /\ UNCHANGED <<cfile, ctmp, crace, nonRaceVars>>

\* Last resort, write_to_file(path): open(path, "w") truncates the master.
RaceOpenPath ==
    \E w \in Writers :
       /\ cw[w].pc = "open_path"
       /\ cfile' = [exists |-> TRUE, lines |-> <<>>]
       /\ cw' = [cw EXCEPT ![w].pos = 0, ![w].pc = "write_path"]
       /\ UNCHANGED <<ctmp, crace, nonRaceVars>>

\* write_to_file(path): the next line reaches the master file.  What two
\* processes overwriting one file in place leave in it depends on the
\* platform; the lines are taken in the order they are written.
RaceWritePath ==
    \E w \in Writers :
       /\ cw[w].pc = "write_path"
       /\ LET lines == CsvLines(cw[w].rows) IN
          /\ cfile' = [exists |-> TRUE, lines |-> Append(cfile.lines, lines[cw[w].pos + 1])]
          /\ cw' = [cw EXCEPT ![w].pos = @ + 1,
                              ![w].pc = IF cw[w].pos + 1 < Len(lines)
                                        THEN "write_path" ELSE "finally"]
       /\ UNCHANGED <<ctmp, crace, nonRaceVars>>

\* finally: if os.path.exists(tmp): os.remove(tmp)
RaceFinally ==
    \E w \in Writers :
       /\ cw[w].pc = "finally"
       /\ ctmp' = [ctmp EXCEPT ![TmpName(w)] = NoFile]
       /\ cw' = [cw EXCEPT ![w].pc = "idle"]
       /\ crace' = [crace EXCEPT !.fallbacks = @ + 1, !.done[cw[w].tb] = @ + 1]
       /\ UNCHANGED <<cfile, nonRaceVars>>

-----------------------------------------------------------------------------
(* Specifications of the master-file writer *)

WriteStart == \E tb \in Buckets : WStart(tb)

WriterStep ==
    \/ WriteStart \/ WWriteTmp \/ WReplaceOk \/ WReplaceDenied
    \/ WOpenPath \/ WWritePath \/ WFinally

WriteInit ==
    /\ StoreInit(0, 0)
    /\ \E kind \in {"weekday", "bulk"}, atomic \in BOOLEAN :
          /\ kind = "bulk" => atomic
          /\ WriterInit(kind, atomic, MaxWrites)
    /\ PairsIdle
    /\ StreamIdle
    /\ SessionIdle /\ SchedIdle /\ DaysIdle /\ RaceIdle

WriteNext == WriterStep \/ ReaderReads

SpecWrite == WriteInit /\ [][WriteNext]_vars

\* The writer is sequential code: a statement that can run does run.
SpecWriteLive == SpecWrite /\ WF_vars(WriterStep)

-----------------------------------------------------------------------------
(* Specifications of the store *)

\* The Time Bucket Store under streaming merges and raw-row reconciliation.
Init == StoreInit(MaxMerges, MaxStoreEod) /\ WriterInit("weekday", TRUE, 0) /\ PairsIdle /\ StreamIdle
    /\ SessionIdle /\ SchedIdle /\ DaysIdle /\ RaceIdle

Next == Stream \/ Aggregate

Spec == Init /\ [][Next]_vars

\* The two ledger-gated end-of-day entry points.
EodInit == StoreInit(0, MaxEodRuns) /\ WriterInit("weekday", TRUE, 0) /\ PairsIdle /\ StreamIdle
    /\ SessionIdle /\ SchedIdle /\ DaysIdle /\ RaceIdle

EodNext == Aggregate \/ AggregateWriteFails \/ Bulk

SpecEod == EodInit /\ [][EodNext]_vars

\* The end-of-day runs, with runs that a crash or an interrupt stops between
\* the write of the master and the append to its ledger.
EodStopNext ==
    \/ Aggregate \/ AggregateWriteFails \/ Bulk
    \/ BulkStopsBeforeLedger \/ AggregateStopsBeforeLedger

SpecEodStop == EodInit /\ [][EodStopNext]_vars

DeriveInit ==
    StoreInit(0, 0) /\ WriterInit("weekday", TRUE, 0) /\ PairsInit /\ StreamIdle
    /\ SessionIdle /\ SchedIdle /\ DaysIdle /\ RaceIdle

DeriveNext == ApplyPairsFromBase

SpecPairs == DeriveInit /\ [][DeriveNext]_vars

StreamInit ==
    /\ StoreInit(0, 0) /\ WriterInit("weekday", TRUE, 0) /\ PairsIdle
    /\ \E date \in StreamDates : StreamSetup(date, MaxTicks, MaxPairedEod, MaxDayEod)
    /\ SessionIdle /\ SchedIdle /\ DaysIdle /\ RaceIdle

StreamNext == AppendMinute \/ StreamTick \/ PairedEod \/ StreamDayEod

SpecStream == StreamInit /\ [][StreamNext]_vars

SessionInit ==
    /\ StoreInit(0, 0) /\ WriterInit("weekday", TRUE, 0) /\ PairsIdle /\ StreamIdle
    /\ \E clock \in Clocks :
          \E cfg \in [preflight : BOOLEAN, metrics : BOOLEAN, eod : BOOLEAN] :
             SessionSetup(clock, cfg, MaxBeats)
    /\ SchedIdle /\ DaysIdle /\ RaceIdle

SessionNext ==
    \/ ClockAdvances \/ HelperDies \/ SessionStart \/ WaitHeartbeat
    \/ InterruptWhileWaiting \/ SessionOpens \/ ActiveBeat \/ SessionEnds
    \/ InterruptWhileActive \/ EodRun

SpecSession == SessionInit /\ [][SessionNext]_vars

SchedInit ==
    /\ StoreInit(0, 0) /\ WriterInit("weekday", TRUE, 0) /\ PairsIdle /\ StreamIdle
    /\ SessionIdle /\ SchedSetup("start") /\ DaysIdle /\ RaceIdle

SchedNext == SchedAlign \/ SchedTest \/ SchedTick \/ SchedWait

SpecSched == SchedInit /\ [][SchedNext]_vars

DaysInit ==
    /\ StoreInit(0, 0) /\ WriterInit("weekday", TRUE, 0) /\ PairsIdle /\ StreamIdle
    /\ SessionIdle /\ SchedIdle /\ DaysSetup(0) /\ RaceIdle

DaysNext == DaysStream \/ DaysPairedEod \/ DaysRawEod \/ DaysBulkEod

SpecDays == DaysInit /\ [][DaysNext]_vars

\* Two writers of one master file.
RaceInit == StoreInit(0, 0) /\ WriterInit("weekday", TRUE, 0) /\ PairsIdle /\ StreamIdle
    /\ SessionIdle /\ SchedIdle /\ DaysIdle /\ RaceSetup(MaxRaceMerges)

RaceNext ==
    \/ RaceRead \/ RaceMkTmp \/ RaceWriteTmp \/ RaceReplaceOk \/ RaceReplaceDenied
    \/ RaceOpenPath \/ RaceWritePath \/ RaceFinally

SpecRace == RaceInit /\ [][RaceNext]_vars

-----------------------------------------------------------------------------
(* Properties of the Time Bucket Store and of the end-of-day entry points *)

RECURSIVE BagSum(_)
BagSum(B) ==
    IF DOMAIN B = {} THEN 0
    ELSE LET v == CHOOSE x \in DOMAIN B : TRUE
         IN  v * B[v] + BagSum([x \in (DOMAIN B) \ {v} |-> B[x]])

BagMin(B) == CHOOSE x \in DOMAIN B : \A y \in DOMAIN B : x <= y

BagMax(B) == CHOOSE x \in DOMAIN B : \A y \in DOMAIN B : x >= y

HasRow(f, tb) == f.exists /\ tb \in DOMAIN f.rows

\* a is the quotient s/n at the persisted precision (within half a unit).
IsQuotient(a, s, n) == 2 * Abs(n * a - s) <= n

\* The input of the last end-of-day run holds a row that is merged.
LastSrcMergeable ==
    \/ /\ last.op = "agg"
       /\ \E i \in 1..Len(last.src) : RowAccepted(last.src[i], last.key)
    \/ /\ last.op = "bulk"
       /\ \E i \in 1..Len(last.src) : \E j \in 1..Len(last.src[i].daily) :
             DailyAccepted(last.src[i].daily[j], SESSION_START_HHMM, SESSION_END_HHMM)

\* C1: the observations of a date are added to a master file by at most one
\* ledger-gated end-of-day invocation, whichever of the two entry points
\* (run_bulk_eod with use_ledger, aggregate_day_for_key with a date_str) runs.
C1_MergedAtMostOnce ==
    /\ \A k \in AdvKeys : \A d \in Dates : advRuns[k][d] <= 1
    /\ \A k \in BulkKeys : \A d \in Dates : bulkRuns[k][d] <= 1

\* A gated bulk run for a date that an earlier run merged, with mergeable rows.
C1_Witness ==
    /\ last.op = "bulk" /\ last.gated /\ LastSrcMergeable
    /\ \E k \in last.had : bulkRuns[k][last.date] = 1

\* C2: a ledger-gated end-of-day run that repeats the run before it (same
\* entry point, file, date and source rows, the first one completed and not
\* dry) writes no master file and changes no master row and no ledger line.
C2_SecondRunChangesNothing ==
    [][ ( /\ now' # now
          /\ last.op \in {"agg", "bulk"} /\ last.gated /\ ~last.dry
          /\ last.status = "ok"
          /\ last'.op = last.op /\ last'.gated /\ last'.date = last.date
          /\ last'.key = last.key /\ last'.src = last.src )
        => ( /\ adv' = adv /\ bulk' = bulk
             /\ advLedger' = advLedger /\ bulkLedger' = bulkLedger
             /\ last'.wrote = {} ) ]_vars

\* A raw-row run skipped because the run before it recorded the date.
C2_Witness ==
    /\ last.op = "agg" /\ last.gated /\ ~last.dry /\ LastSrcMergeable
    /\ last.key \in last.had /\ last.skipped = {last.key}
    /\ advRuns[last.key][last.date] = 1

\* C3: _apply_weekday_update creates the row of an empty bucket with n = 1
\* and sum = min = max = avg = value, otherwise adds one to n and the value to
\* sum, folds it into min and max and sets avg = sum/n; it does not fail, and
\* the whole map (the other rows as they were) is rewritten to the file.
C3_MergeObservation ==
    [][ (now' # now /\ last'.op = "stream") =>
        LET k   == last'.key
            tb  == last'.tb
            v   == last'.tot
            old == adv[k]
            new == adv'[k]
            row == last'.updated
        IN  /\ last'.status = "ok"
            /\ row.time_bucket = tb
            /\ IF HasRow(old, tb)
               THEN /\ row.n_tot = old.rows[tb].n_tot + 1
                    /\ row.sum_tot = old.rows[tb].sum_tot + v
                    /\ row.min_tot = Min2(old.rows[tb].min_tot, v)
                    /\ row.max_tot = Max2(old.rows[tb].max_tot, v)
               ELSE /\ row.n_tot = 1
                    /\ row.sum_tot = v /\ row.min_tot = v /\ row.max_tot = v
            /\ row.avg_tot = <<row.sum_tot, row.n_tot>>
            /\ new.exists
            /\ DOMAIN new.rows = (IF old.exists THEN DOMAIN old.rows ELSE {}) \cup {tb}
            /\ new.rows[tb].n_tot = row.n_tot
            /\ new.rows[tb].sum_tot = row.sum_tot
            /\ new.rows[tb].min_tot = row.min_tot
            /\ new.rows[tb].max_tot = row.max_tot
            /\ IsQuotient(new.rows[tb].avg_tot, row.sum_tot, row.n_tot)
            /\ \A b \in (DOMAIN new.rows) \ {tb} : new.rows[b] = old.rows[b] ]_vars

\* A merge into a bucket that already held a row, beside another bucket.
C3_Witness ==
    /\ last.op = "stream" /\ last.updated.n_tot >= 2
    /\ \E b \in DOMAIN adv[last.key].rows : b # last.tb

\* C4: the row of a bucket is a function of the multiset of the values merged
\* into it (so of no order): n their number, sum their total, avg = sum/n,
\* min and max their extremes; a bucket nothing was merged into has no row.
C4_RowIsStatsOfMergedValues ==
    \A k \in AdvKeys : \A b \in Buckets :
        LET B == merged[k][b] IN
        IF DOMAIN B = {} THEN ~HasRow(adv[k], b)
        ELSE /\ HasRow(adv[k], b)
             /\ LET r == adv[k].rows[b] IN
                /\ r.n_tot = BagCardinality(B)
                /\ r.sum_tot = BagSum(B)
                /\ IsQuotient(r.avg_tot, BagSum(B), BagCardinality(B))
                /\ r.min_tot = BagMin(B)
                /\ r.max_tot = BagMax(B)

\* 09:15 <- 100, 09:15 <- 120, 09:16 <- 80 merged into an empty store.
C4_Witness ==
    \E k \in AdvKeys :
        /\ merged[k][555] = SetToBag({100 * Unit, 120 * Unit})
        /\ merged[k][556] = SetToBag({80 * Unit})
        /\ adv[k].rows[555].n_tot = 2 /\ adv[k].rows[555].sum_tot = 220 * Unit
        /\ adv[k].rows[555].avg_tot = 110 * Unit
        /\ adv[k].rows[555].min_tot = 100 * Unit
        /\ adv[k].rows[555].max_tot = 120 * Unit
        /\ adv[k].rows[556].n_tot = 1 /\ adv[k].rows[556].sum_tot = 80 * Unit
        /\ adv[k].rows[556].avg_tot = 80 * Unit
        /\ adv[k].rows[556].min_tot = 80 * Unit
        /\ adv[k].rows[556].max_tot = 80 * Unit

\* C5: every row of a weekday master file has n >= 1, avg equal to sum/n at
\* the persisted precision, and min <= avg <= max.
C5_RowInvariant ==
    \A k \in AdvKeys : \A b \in DOMAIN adv[k].rows :
        LET r == adv[k].rows[b] IN
        /\ r.n_tot >= 1
        /\ IsQuotient(r.avg_tot, r.sum_tot, r.n_tot)
        /\ r.min_tot <= r.avg_tot /\ r.avg_tot <= r.max_tot

\* A row merged by both paths whose avg is a rounded quotient strictly
\* between min and max.
C5_Witness ==
    \E k \in AdvKeys : \E b \in DOMAIN adv[k].rows :
        LET r == adv[k].rows[b] IN
        /\ r.n_tot >= 3
        /\ r.n_tot * r.avg_tot # r.sum_tot
        /\ r.min_tot < r.avg_tot /\ r.avg_tot < r.max_tot
        /\ quota.eod < MaxStoreEod /\ quota.stream < MaxMerges

\* C9: when the ledger of a master file already holds the date, a gated
\* end-of-day run merges nothing into that file, logs a skip and does not
\* fail, for both entry points.
C9_SkipIsLoggedNoOp ==
    (last.op \in {"agg", "bulk"} /\ last.gated /\ last.had # {}) =>
        /\ last.had \cap last.hit = {}
        /\ last.had \cap last.wrote = {}
        /\ "SKIP" \in last.log
        /\ last.status = "ok"

\* C31: in both end-of-day entry points a step adds a line to the ledger of
\* a master file only if the same invocation wrote that file, and an
\* invocation whose master write raised adds no line to any ledger.
C31_LedgerAfterWrite ==
    [][ /\ \A k \in AdvKeys : advLedger'[k] # advLedger[k] => k \in last'.wrote
        /\ \A k \in BulkKeys : bulkLedger'[k] # bulkLedger[k] => k \in last'.wrote
        /\ (now' # now /\ last'.status = "raised")
              => (advLedger' = advLedger /\ bulkLedger' = bulkLedger) ]_vars

\* A ledger-gated bulk run with mergeable rows for a date not yet recorded,
\* whose os.replace raised.
C31_Witness ==
    /\ last.op = "bulk" /\ last.gated /\ last.status = "raised"
    /\ last.src # <<>> /\ GoodDaily(last.src[1].daily) > 0
    /\ ~InLedger(bulkLedger[last.src[1].key], last.date)

\* C32: one end-of-day run for a date adds exactly one to the merge count of
\* each time bucket the day's source has in-session data for, and nothing to
\* the others, however many rows of the source fall in one minute.
C32_OneMergePerBucketPerDate ==
    [][ (now' # now /\ last'.status = "ok") =>
          /\ last'.op = "bulk" =>
                \A k \in last'.wrote : \A hhmm \in Buckets :
                   CounterOf(bulk'[k], hhmm) - CounterOf(bulk[k], hhmm) <= 1
          /\ last'.op = "agg" =>
                \A k \in last'.wrote : \A tb \in Buckets :
                   (IF tb \in DOMAIN adv'[k].rows THEN adv'[k].rows[tb].n_tot ELSE 0)
                     - (IF tb \in DOMAIN adv[k].rows THEN adv[k].rows[tb].n_tot ELSE 0)
                   <= 1 ]_vars

\* C24: the list run_bulk_eod returns names exactly the master files the
\* invocation updated: a master skipped for its ledger, or into which no row
\* of the day's csv was merged, is not in it.
C24_BulkReturnsUpdatedMasters ==
    (last.op = "bulk" /\ last.status = "ok") =>
        {last.paths[i] : i \in 1..Len(last.paths)} = last.wrote

\* C29: after a master-file write has returned or failed, the temporary file
\* it created no longer exists, for write_weekday_master and for
\* write_master_atomic.
C29_TmpGoneAfterWrite ==
    wpc \in {"returned", "raised"} => ~tmp.exists

\* C30: a streaming merge or a raw-row reconciliation never removes a row of
\* a master file nor the file, and leaves the row of every time bucket it
\* merged nothing into as it was, field for field.
C30_OtherBucketsKept ==
    [][ \A k \in AdvKeys :
           /\ adv[k].exists => adv'[k].exists
           /\ DOMAIN adv[k].rows \subseteq DOMAIN adv'[k].rows
           /\ \A b \in DOMAIN adv[k].rows :
                 merged'[k][b] = merged[k][b] => adv'[k].rows[b] = adv[k].rows[b] ]_vars

\* A file with the rows of two buckets, one of them older than the last merge
\* into the file, which went into the other.
C30_Witness ==
    /\ last.op \in {"stream", "agg"} /\ last.wrote # {}
    /\ \E k \in last.wrote :
          /\ DOMAIN adv[k].rows = Buckets
          /\ \E b \in Buckets : adv[k].rows[b].last_updated < now
          /\ \E b \in Buckets : adv[k].rows[b].last_updated = now

-----------------------------------------------------------------------------
(* Properties of two writers of one master file *)

\* C28: with two writers interleaving read, compute and rewrite on one master
\* file, the file holds after each completed rename the complete lines of the
\* map of the writer that renamed, header and every row, and nothing else.
\* (That an update can be lost is the state C28_Witness.)
C28_RenameInstallsOneWriter ==
    [][ crace'.renames > crace.renames =>
           \E w \in Writers :
              /\ cw[w].pc = "replace" /\ cw'[w].pc = "idle"
              /\ cfile' = [exists |-> TRUE, lines |-> CsvLines(cw[w].rows)] ]_vars

\* A lost update: both writers have returned, every write was a rename, two
\* merges into one bucket completed and the file counts one.
C28_Witness ==
    /\ \A w \in Writers : cw[w].pc = "idle"
    /\ crace.fallbacks = 0 /\ crace.renames = 2
    /\ \E tb \in Buckets :
          /\ crace.done[tb] = 2
          /\ cfile = [exists |-> TRUE, lines |-> CsvLines(Put(NoRows, tb, 1))]

-----------------------------------------------------------------------------
(* Properties of the master-file writers *)

NewFile == [exists |-> TRUE, lines |-> wcall.lines]

Increasing(seq) == \A i \in 1..(Len(seq) - 1) : seq[i] < seq[i + 1]

\* C6 as stated: the reader never reads a truncated or partly written file,
\* whichever writer and whichever path.
C6_ReaderNeverSeesPartial == ~obs.torn

\* C6 as the code has it: the reader reads a truncated or partly written
\* file only while write_weekday_master overwrites the master file in place,
\* that is with atomic writes disabled or after all RETRIES renames failed;
\* on the rename paths, and with write_master_atomic, never.
C6_PartialOnlyOnDirectOverwrite ==
    obs.torn => /\ wcall.kind = "weekday"
                /\ ~wcall.atomic \/ obs.attempt = RETRIES

\* The rename succeeded after failed attempts and the reader, having read
\* while the attempts went on, reads the whole new file.
C6_Witness ==
    /\ wcall.kind = "weekday" /\ wcall.atomic
    /\ wpc = "returned" /\ wattempt > 0 /\ wattempt < RETRIES
    /\ obs.attempt = wattempt /\ obs.file = NewFile /\ obs.file # wcall.old
    /\ wleft = 0

C7_Safe ==
    (wcall.kind = "weekday" /\ wcall.atomic) =>
        /\ wattempt <= RETRIES
        /\ Len(wdelays) = wattempt
        /\ Increasing(wdelays)
        /\ wpc \in {"open_path", "write_path"} => wattempt = RETRIES
        /\ wpc # "raised"
        /\ wpc = "returned" => (target = NewFile /\ ~tmp.exists)

\* C7: with atomic writes enabled write_weekday_master makes at most RETRIES
\* rename attempts with strictly increasing sleeps between them, overwrites
\* the master file in place only once they have all failed, and always
\* returns, the master file then holding the whole new content.
C7_BoundedRetriesThenOverwrite ==
    /\ []C7_Safe
    /\ (wcall.kind = "weekday" /\ wcall.atomic /\ wpc = "mktmp") ~> (wpc = "returned")

\* Every rename failed, the file was overwritten in place, the call returned.
C7_Witness ==
    /\ wcall.kind = "weekday" /\ wcall.atomic /\ wpc = "returned"
    /\ wattempt = RETRIES /\ wdelays = <<2, 4, 6, 8, 10>>
    /\ target = NewFile /\ target # wcall.old

\* C8: no write of a weekday master file ends with the rename failure
\* propagated to its caller, for either writer.
C8_RenameFailureNeverPropagates == wpc # "raised"

-----------------------------------------------------------------------------
(* Properties of the Streaming Updater and of the paired end-of-day mode *)

StreamFileOf(m) == <<m.exp, m.off, m.wcode>>

RowN(f, tb) == IF HasRow(f, tb) THEN f.rows[tb].n_tot ELSE 0

RowSum(f, tb) == IF HasRow(f, tb) THEN f.rows[tb].sum_tot ELSE 0

\* C11: when the pair file of a run supplies a value for an (expiry, pair
\* offset, minute), exactly that value is merged into the pair master's
\* bucket, once: the derived value is neither blended with it nor merged too.
C11_DirectPairReplacesDerived ==
    [][ (now' # now /\ slast'.op \in {"stream", "eod_paired"} /\ slast'.enabled) =>
        \A k \in {x \in DOMAIN ssrc : x[2] \in PAIR_OFFSETS} :
            LET f  == <<k[1], k[2], weekday_code_from_date(sdate)>>
                ms == {m \in slast'.merges : m.exp = k[1] /\ m.off = k[2] /\ m.tb = k[3]}
            IN  /\ Cardinality(ms) = 1
                /\ \A m \in ms : m.tot = ssrc[k] /\ StreamFileOf(m) = f
                /\ RowN(smaster'[f], k[3]) = RowN(smaster[f], k[3]) + 1
                /\ RowSum(smaster'[f], k[3]) = RowSum(smaster[f], k[3]) + ssrc[k] ]_vars

\* A streaming pass merged the direct 11.0 of 09:15 where the base totals
\* 12.5 and 7.5 of that minute would have derived 10.0.
C11_Witness ==
    /\ slast.op = "stream" /\ slast.enabled
    /\ <<"this_week", "atm_p1m1", 555>> \in DOMAIN ssrc
    /\ {<<"this_week", "atm_p1", 555>>, <<"this_week", "atm_m1", 555>>} \subseteq DOMAIN ssrc
    /\ ssrc[<<"this_week", "atm_p1m1", 555>>] = 11 * Unit
    /\ \E f \in StreamFiles :
          /\ f[2] = "atm_p1m1" /\ HasRow(smaster[f], 555)
          /\ smaster[f].rows[555].n_tot = 1
          /\ smaster[f].rows[555].sum_tot = 11 * Unit

-----------------------------------------------------------------------------
(* Properties of the Session Orchestrator *)

AllowedTransitions ==
    { <<"STARTING", "WAITING_FOR_OPEN">>,
      <<"WAITING_FOR_OPEN", "PREFLIGHT_FAILED">>, <<"WAITING_FOR_OPEN", "ACTIVE">>,
      <<"WAITING_FOR_OPEN", "DONE">>,
      <<"ACTIVE", "EOD_RUN">>, <<"EOD_RUN", "DONE">> }

\* C12: the orchestrator changes state only along STARTING -> WAITING_FOR_OPEN
\* -> (PREFLIGHT_FAILED | ACTIVE), ACTIVE -> EOD_RUN -> DONE and
\* WAITING_FOR_OPEN -> DONE (the interrupt); PREFLIGHT_FAILED and DONE are
\* never left, so ACTIVE and EOD_RUN never follow PREFLIGHT_FAILED.
C12_OnlyListedTransitions ==
    [][ /\ opc' # opc => <<opc, opc'>> \in AllowedTransitions
        /\ opc \in {"PREFLIGHT_FAILED", "DONE"} => opc' = opc
        /\ (opc' # opc /\ opc' = "DONE" /\ opc = "WAITING_FOR_OPEN")
              => orun'.intr = "waiting" ]_vars

\* A run with the end-of-day run disabled went through every state to DONE.
C12_Witness ==
    /\ otrace = <<"STARTING", "WAITING_FOR_OPEN", "ACTIVE", "EOD_RUN", "DONE">>
    /\ orun.ended = "returned" /\ ~ocfg.eod

\* C13: a run that reached ACTIVE with the end-of-day run enabled and has
\* ended has invoked the Bulk Reconciler exactly once, however ACTIVE was
\* left and in either mode of the session.
C13_EodRunsExactlyOnce ==
    (orun.ended # "no" /\ ocfg.eod /\ \E i \in 1..Len(otrace) : otrace[i] = "ACTIVE")
        => orun.eod = 1

\* C14: a run that has ended has emitted exactly one summary and has not left
\* the helper process running.
C14_SummaryAndHelperStopped ==
    orun.ended # "no" => (orun.summaries = 1 /\ helper \notin {"running", "unstarted"})

\* C15: after an interrupt while waiting for the open the run is over in
\* DONE, having entered neither ACTIVE nor EOD_RUN and never invoked the
\* Bulk Reconciler.
C15_InterruptWhileWaitingSkipsEod ==
    orun.intr = "waiting" =>
        /\ otrace = <<"STARTING", "WAITING_FOR_OPEN", "DONE">>
        /\ orun.ended = "returned" /\ orun.rc = 130
        /\ orun.eod = 0 /\ orun.summaries = 1

\* Interrupted before the open, after a heartbeat, with the end-of-day run
\* enabled and the helper running: summary, helper stopped, nothing else.
C15_Witness ==
    /\ orun.intr = "waiting" /\ ocfg.eod /\ opc = "DONE"
    /\ orun.beats < MaxBeats /\ helper = "stopped"

\* C25: at every instant of a run at most one helper process started by the
\* orchestrator is alive, and it is the one the orchestrator holds; a helper
\* is started only when the orchestrator holds none or holds a dead one.
C25_AtMostOneHelper ==
    /\ [](hprocs.alive <= 1 /\ (hprocs.alive = 1 <=> helper = "running"))
    /\ [][hprocs'.started > hprocs.started => helper \in {"unstarted", "none", "dead"}]_vars

\* The helper died during the session and a second one was started.
C25_Witness ==
    /\ opc = "ACTIVE" /\ ~ocfg.metrics
    /\ hprocs.started = 2 /\ hprocs.alive = 1 /\ helper = "running"

\* C26: in ACTIVE with the session window open, a helper that is dead at the
\* start of a liveness-poll interval is no longer dead at its end, in the
\* scheduler mode as in the idle-poll mode.
C26_DeadHelperRestartedInBothModes ==
    [][ (opc = "ACTIVE" /\ orun'.beats < orun.beats /\ helper = "dead")
           => helper' # "dead" ]_vars

\* C26 as the idle-poll mode has it: there a helper found dead or never
\* started is started again at the poll (a start that fails leaves none and
\* is attempted again at the next poll); in the scheduler mode no poll
\* happens and the helper is left as it is.
C26_DeadHelperRestartedInIdleMode ==
    [][ (opc = "ACTIVE" /\ orun'.beats < orun.beats) =>
           IF ocfg.metrics
           THEN helper' = helper /\ hprocs' = hprocs
           ELSE /\ helper \in {"dead", "none"} => helper' \in {"running", "none"}
                /\ helper' = "running" /\ helper # "running"
                      => hprocs'.started = hprocs.started + 1 ]_vars

\* In the idle-poll mode the helper died and the next poll started another,
\* with the session window still open.
C26_Witness ==
    /\ opc = "ACTIVE" /\ ~ocfg.metrics /\ is_in_session(oclock)
    /\ hprocs.started = 2 /\ helper = "running" /\ orun.beats < MaxBeats

\* C40: the ledger of a master holds a date only if a ledger-gated run merged
\* at least one observation of that date into the master, for both
\* end-of-day entry points.
C40_LedgerDateWasMerged ==
    /\ \A k \in AdvKeys : \A d \in Dates :
          InLedger(advLedger[k], d) => advRuns[k][d] >= 1
    /\ \A k \in BulkKeys : \A d \in Dates :
          InLedger(bulkLedger[k], d) => bulkRuns[k][d] >= 1

\* C39: a streaming pass and a paired end-of-day pass merge the derived
\* total of every (expiry, pair offset, minute) whose two base totals are in
\* the source and for which the source has no direct pair total.
C39_DerivedWhereNoDirectTotal ==
    [][ (now' # now /\ slast'.op \in {"stream", "eod_paired"} /\ slast'.enabled) =>
          LET base    == _build_totals_split_for_index_day(ssrc, StreamExpiries, BASE_OFFSETS)
              direct  == _build_totals_split_for_index_day(ssrc, StreamExpiries, PAIR_OFFSETS)
              derived == _apply_pairs_from_base(base)
          IN  \A k \in (DOMAIN derived) \ (DOMAIN direct) :
                 \E m \in slast'.merges :
                    /\ m.kind = "pair"
                    /\ m.exp = k[1] /\ m.off = k[2] /\ m.tb = k[3]
                    /\ m.tot = Fmt6(derived[k][1], derived[k][2]) ]_vars

\* C38: a run started after the session end sleeps at no heartbeat of the
\* wait, makes no tick or poll and starts no second helper in ACTIVE, and
\* ends in DONE by way of EOD_RUN, with the Bulk Reconciler invoked if that is
\* enabled.
C38_LateStartGoesStraightToDone ==
    orun.started > CloseAt =>
       /\ orun.beats = MaxBeats
       /\ hprocs.started <= 1
       /\ orun.ended # "no" =>
             /\ otrace = <<"STARTING", "WAITING_FOR_OPEN", "ACTIVE", "EOD_RUN", "DONE">>
             /\ orun.eod = (IF ocfg.eod THEN 1 ELSE 0)

\* C36: an end-of-day entry point run a second time for a date, directly
\* after a run of it for that date, raises the n_tot of no bucket of a master
\* the date was merged into: the paired 'eod' mode of the aggregator and the
\* raw end-of-day run alike.
C36_SecondEodRunAddsNothing ==
    [][ (dclock' # dclock /\ dlast.op \in {"eod", "raw_eod"} /\ dlast.status = 0
           /\ dlast'.op = dlast.op /\ dlast'.date = dlast.date)
          => \A f \in StreamFiles : dlast.date \in ddates[f] =>
                \A tb \in DOMAIN dadv'[f].rows :
                   /\ tb \in DOMAIN dadv[f].rows
                   /\ dadv'[f].rows[tb].n_tot = dadv[f].rows[tb].n_tot ]_vars

\* C35: the ledger-gated run that follows, for the same date, a run stopped
\* between the write of a master and the append to its ledger merges nothing
\* into that master.
C35_RerunAfterStopMergesNothing ==
    [][ (last.status = "stopped" /\ last'.status = "ok" /\ last'.gated
           /\ last'.op = last.op /\ last'.date = last.date
           /\ (last.op = "agg" => last'.key = last.key))
          => (last.wrote \cap last.hit) \cap last'.hit = {} ]_vars

\* C34: a run that is not interrupted enters ACTIVE from the wait for the
\* open only with the clock at or after the session start, and in the
\* idle-poll mode leaves ACTIVE for EOD_RUN only after the session end.
C34_ActiveOnlyInsideWindow ==
    [][ /\ (opc = "WAITING_FOR_OPEN" /\ opc' = "ACTIVE") => OpenAt <= oclock
        /\ (opc = "ACTIVE" /\ opc' = "EOD_RUN" /\ ~ocfg.metrics
               /\ orun'.intr = "none") => CloseAt < oclock ]_vars

\* C33: in a streaming pass and in the paired end-of-day pass a pair total,
\* read or derived, is merged into the master of its pair offset only: the
\* masters of the five base offsets are after the pass what the base merges
\* alone make of them (untouched by the paired end-of-day pass), and a base
\* merge goes into no pair-offset master.
C33_PairsLeaveBaseMasters ==
    [][ (now' # now /\ slast'.op \in {"stream", "eod_paired"}) =>
          LET base == {m \in slast'.merges : m.kind = "base"}
              pair == {m \in slast'.merges : m.kind = "pair"}
          IN  /\ \A m \in pair : m.off \in PAIR_OFFSETS
              /\ \A m \in base : m.off \in BASE_OFFSETS
              /\ slast'.op = "eod_paired" => base = {}
              /\ \A f \in StreamFiles :
                    /\ f[2] \in BASE_OFFSETS => smaster'[f] = MergeAll(smaster, base, now)[f]
                    /\ f[2] \in PAIR_OFFSETS => smaster'[f] = MergeAll(smaster, pair, now)[f] ]_vars

\* A streaming pass that merged the two halves of a pair and the pair itself.
C33_Witness ==
    /\ slast.op = "stream"
    /\ \E m \in slast.merges : m.kind = "pair" /\ m.off = "atm_p1m1"
    /\ \E m \in slast.merges : m.kind = "base" /\ m.off = "atm_p1"
    /\ \E m \in slast.merges : m.kind = "base" /\ m.off = "atm_m1"

\* C18: every streaming pass merges only the latest minute of the source,
\* and a time bucket merged by an earlier tick is not merged again: over all
\* the ticks of a day each bucket's n grows by at most one.
C18_StreamMergesLatestMinuteOnly ==
    /\ slast.op = "stream" =>
          \A m \in slast.merges : \A k \in DOMAIN ssrc : k[3] <= m.tb
    /\ \A f \in StreamFiles : \A b \in StreamBuckets : streamN[f][b] <= 1

\* C19: the Streaming Updater has no ledger gate.  An enabled pass leaves
\* every ledger as it was and merges every total of the source whether or not
\* a ledger holds the date and whether or not an earlier pass merged the
\* minute: each merged bucket's n goes up by one on every pass.
C19_StreamHasNoLedgerGate ==
    [][ (squota'.tick # squota.tick /\ slast'.enabled) =>
        /\ sledger' = sledger
        /\ slast'.merges = BaseMerges(ssrc, sdate, StreamExpiries)
                              \cup PairMerges(ssrc, sdate, StreamExpiries)
        /\ \A m \in slast'.merges :
              /\ RowN(smaster'[StreamFileOf(m)], m.tb) = RowN(smaster[StreamFileOf(m)], m.tb) + 1
              /\ streamN'[StreamFileOf(m)][m.tb] = streamN[StreamFileOf(m)][m.tb] + 1 ]_vars

\* The end-of-day pass put the date in the atm master's ledger, and two
\* streaming passes over the unchanged 09:15 minute then merged it twice.
C19_Witness ==
    LET f == <<"this_week", "atm", weekday_code_from_date(sdate)>> IN
    /\ slast.op = "stream" /\ slast.enabled
    /\ InLedger(sledger[f], sdate)
    /\ \A k \in DOMAIN ssrc : k[3] = 555
    /\ streamN[f][555] = 2
    /\ RowN(smaster[f], 555) >= 2

\* C20: a streaming pass merges the base totals only when the date is a
\* Monday to Friday, and merges every pair-offset total, direct or derived,
\* whatever the weekday; the paired end-of-day pass merges them likewise.
C20_WeekdayFilterOnBaseOnly ==
    [][ (now' # now /\ slast'.op \in {"stream", "eod_paired"} /\ slast'.enabled) =>
        LET wcode == weekday_code_from_date(sdate)
            bkeys == {k \in DOMAIN ssrc : k[2] \in BASE_OFFSETS}
            pkeys == DOMAIN pairs_from_files(ssrc, StreamExpiries)
            done(kind) == {<<m.exp, m.off, m.tb>> : m \in {x \in slast'.merges : x.kind = kind}}
        IN  /\ done("base") = IF slast'.op = "stream" /\ wcode \in {"mon", "tue", "wed", "thu", "fri"}
                              THEN bkeys ELSE {}
            /\ done("pair") = pkeys
            /\ \A k \in bkeys \cup pkeys :
                  RowN(smaster'[<<k[1], k[2], wcode>>], k[3])
                     = RowN(smaster[<<k[1], k[2], wcode>>], k[3])
                         + (IF k \in done("base") \cup done("pair") THEN 1 ELSE 0) ]_vars

\* On a Saturday a streaming pass merged the derived atm_p1m1 total of 09:15
\* and left the atm_p1 and atm_m1 totals it was derived from unmerged.
C20_Witness ==
    /\ weekday_code_from_date(sdate) = "sat"
    /\ slast.op = "stream" /\ slast.enabled
    /\ {<<"this_week", "atm_p1", 555>>, <<"this_week", "atm_m1", 555>>} \subseteq DOMAIN ssrc
    /\ <<"this_week", "atm_p1m1", 555>> \notin DOMAIN ssrc
    /\ RowN(smaster[<<"this_week", "atm_p1m1", "sat">>], 555) >= 1
    /\ RowN(smaster[<<"this_week", "atm_p1", "sat">>], 555) = 0
    /\ RowN(smaster[<<"this_week", "atm_m1", "sat">>], 555) = 0

-----------------------------------------------------------------------------
(* Properties of the update paths over several days *)

\* C21: on every update path the observations of a date are merged only
\* into a master file of that date's weekday: a file that names a weekday
\* holds only dates of that weekday, and no master file holds the
\* observations of dates with different weekdays.
C21_MasterFileOfTheDateWeekday ==
    /\ \A f \in StreamFiles : \A d \in ddates[f] : f[3] = weekday_code_from_date(d)
    /\ \A k \in BulkKeys : \A d1 \in dbulkDates[k], d2 \in dbulkDates[k] :
          weekday_code_from_date(d1) = weekday_code_from_date(d2)

\* C22: an entry point given a malformed date or an unknown expiry-bucket
\* code ends with a non-zero status and has changed no master file and no
\* ledger.
C22_ConfigurationErrorFailsFast ==
    (dlast.op # "none" /\ (~IsIsoDate(dlast.date) \/ ~(dlast.expiries \subseteq KnownSources)))
        => (dlast.status # 0 /\ ~dlast.mutated)

\* C23: a malformed source row or a missing source file does not abort a
\* pass nor change its exit status: a pass with well-formed arguments ends
\* with status 0 and has merged every well-formed, in-session row of its
\* sources.
C23_MalformedRowsAreSkipped ==
    (dlast.op # "none" /\ IsIsoDate(dlast.date) /\ dlast.expiries \subseteq KnownSources)
        => (dlast.status = 0 /\ dlast.merged = dlast.good)

\* C27: the ledger of a master file only grows: every step of every entry
\* point (stream, paired EOD, raw EOD, bulk EOD, merging or skipping) leaves
\* the lines a ledger had as the first lines it has, so a recorded date is
\* contained in it in every later state.
C27_LedgerOnlyGrows ==
    [][ LET Kept(old, new) == /\ Len(old) <= Len(new)
                              /\ SubSeq(new, 1, Len(old)) = old
        IN /\ \A f \in StreamFiles : Kept(dadvLedger[f], dadvLedger'[f])
           /\ \A k \in BulkKeys : Kept(dbulkLedger[k], dbulkLedger'[k]) ]_vars

\* A ledger that had a date recorded had a second one recorded after it.
C27_Witness ==
    /\ \E k \in BulkKeys : Len(dbulkLedger[k]) = 2 /\ dbulkLedger[k][1] # dbulkLedger[k][2]
    /\ dlast.op = "bulk"

-----------------------------------------------------------------------------
(* Properties of the Minute Scheduler *)

\* C16: run_minutely evaluates the continuation predicate exactly once for
\* every boundary it obtains, invokes the callback only at a boundary where
\* the predicate was true and at most once there, never invokes it at or
\* after the boundary where the predicate returned false, and returns at
\* the first false.
C16_PredicateOncePerBoundary ==
    /\ \A b \in Boundaries \ rbounds : rstat[b].evals = 0 /\ rstat[b].ticks = 0
    /\ \A b \in rbounds :
          /\ rstat[b].evals = (IF b = rboundary /\ rpc = "test" THEN 0 ELSE 1)
          /\ rstat[b].ticks <= 1
          /\ rstat[b].ticks = 1 => rstat[b].pred = "true"
          /\ rstat[b].pred = "true" /\ ~(b = rboundary /\ rpc = "tick")
                => rstat[b].ticks = 1
          /\ rstat[b].pred = "false" =>
                /\ rpc = "returned" /\ b = rboundary
                /\ \A later \in Boundaries : later >= b => rstat[later].ticks = 0
    /\ rpc = "returned" => rstat[rboundary].pred = "false"

\* Two boundaries ticked, then the predicate false at a later one: the loop
\* has returned.
C16_Witness ==
    /\ rpc = "returned"
    /\ Cardinality({b \in rbounds : rstat[b].ticks = 1}) >= 2
    /\ rstat[rboundary].evals = 1 /\ rstat[rboundary].ticks = 0

\* C17: an Exception raised by the tick callback is caught: the loop goes on
\* to wait for the next boundary, and at that boundary it evaluates the
\* predicate again; it never leaves run_minutely because of the error.
C17_CallbackErrorCaught ==
    /\ \A b \in rbounds : rstat[b].outcome = "error" =>
          \/ b = rboundary /\ rpc = "wait"
          \/ /\ b < rboundary
             /\ rstat[rboundary].evals = (IF rpc = "test" THEN 0 ELSE 1)
    /\ rpc = "raised" => rstat[rboundary].outcome = "interrupt"

\* The callback failed at one boundary and was invoked, and succeeded, at a
\* later one.
C17_Witness ==
    \E b \in rbounds, later \in rbounds :
       /\ b < later
       /\ rstat[b].outcome = "error"
       /\ rstat[later].outcome = "ok"

\* C37: every boundary run_minutely hands to the callback is a minute
\* boundary later than every boundary ticked before it: no boundary is
\* ticked twice, and a boundary the loop did not obtain because the callback
\* ran past it is never ticked afterwards.
C37_TickedBoundariesIncrease ==
    [][ \A b \in Boundaries : rstat'[b].ticks > rstat[b].ticks =>
           /\ b = rboundary /\ b \in rbounds
           /\ rstat[b].ticks = 0
           /\ \A o \in Boundaries : rstat[o].ticks > 0 => o < b
           /\ \A o \in Boundaries \ rbounds : o < b => rstat'[o].ticks = 0 ]_vars

\* The callback at boundary 0 ran past boundary 1: boundary 2 was ticked
\* next and boundary 1 never.
C37_Witness ==
    /\ rstat[0].ticks = 1 /\ rstat[2].ticks = 1
    /\ 1 \notin rbounds /\ rstat[1].ticks = 0
    /\ rboundary = 3

-----------------------------------------------------------------------------
(* Properties of the Pair Deriver *)

PairInputs(poff) ==
    IF poff = "atm_p1m1" THEN <<"atm_p1", "atm_m1">> ELSE <<"atm_p2", "atm_m2">>

====
